---- MODULE Spec2Model ----
(***************************************************************************)
(* Interval algebra of rcalendar (src/rcalendar/models.py).                *)
(*                                                                         *)
(* Time is counted in whole seconds from midnight (UTC) of day 0, which is *)
(* a Monday; every datetime of the model is in that one time zone.  A      *)
(* table of the database is a bag of rows (two rows may hold the same      *)
(* values); a QuerySet is a sub-bag of its table, and the order in which   *)
(* rows that tie under Meta.ordering are iterated is left open.            *)
(***************************************************************************)
EXTENDS Integers, Sequences, FiniteSets, Bags, TLC

VARIABLES
    intervals,           \* table Interval: a bag of rows
    memberships,         \* table ResourceMembership: <<resource, organization>> -> schedule_extended_date
    schedule_intervals,  \* table ScheduleInterval: a bag of rows [membership, day_of_week, start, end]
    now,                 \* the wall clock, datetime.datetime.now()
    pc,                  \* position of the driver of the function-level specifications
    arg_self,            \* function-level: the interval join_with_existing is called on
    arg_list,            \* function-level: the list (or the rows of the QuerySet) it is called with
    arg_range,           \* function-level: <<start, end>> given to is_continuous
    res_list,            \* function-level: outcome of the in-memory mode
    res_db,              \* function-level: outcome of the persistent mode
    events,              \* EventDispatchMiddleware.events: the list object the class attribute refers to
    lists,               \* the list objects made so far, each with the events appended to it
    requests             \* the HTTP requests: where each is, what it pushed, its response

vars == <<intervals, memberships, schedule_intervals, now,
          pc, arg_self, arg_list, arg_range, res_list, res_db,
          events, lists, requests>>

storeVars == <<intervals, memberships, schedule_intervals, now>>
funcVars == <<pc, arg_self, arg_list, arg_range, res_list, res_db>>
sinkVars == <<events, lists, requests>>

----------------------------------------------------------------------------
(* Bounds of the model *)

MaxTick == 3          \* Spec: the operations are called with the instants 0, TimeStep, ..., MaxTick * TimeStep
MaxIntervals == 3     \* Spec: rows the Interval table may hold after an operation
MaxScheduleTick == 2       \* ScheduleSpec: as MaxTick
MaxScheduleIntervals == 2  \* ScheduleSpec: as MaxIntervals
MaxFragments == 2     \* fragments in a schedule template handed to apply_schedule
MaxDefaultFragments == 1  \* fragments in a template that is saved as the default
MaxFragmentTick == 1  \* times of day of a fragment: 0, 2 * TimeStep, ..., MaxFragmentTick * 2 * TimeStep
MaxListLen == 3       \* function-level: members of the list handed to join_with_existing
MaxPoint == 5         \* function-level: instants are 0, PointStep, ..., MaxPoint * PointStep
MaxApplyTick == 3     \* schedule-level: times of day are 0, ApplyStep, ..., MaxApplyTick * ApplyStep
MaxApplyWeeks == 2    \* schedule-level: the range of apply_schedule is 1 .. MaxApplyWeeks weeks long
MaxApplyFragments == 2   \* schedule-level: fragments of the weekly template
MaxRequestTick == 3   \* concurrent saves: instants are 0, TimeStep, ..., MaxRequestTick * TimeStep
MaxRequests == 2      \* event sink: HTTP requests served
MaxPushes == 2        \* event sink: events one request pushes
MaxViewTick == 2      \* ViewSpec: as MaxTick
MaxViewIntervals == 2 \* ViewSpec: as MaxIntervals
MaxIds == 2           \* ViewSpec: ids in the body of delete_many

----------------------------------------------------------------------------
(* Temporal primitives *)

DaySeconds == 24 * 60 * 60
\* Interval.JOIN_GAP = timedelta(minutes=5)
JOIN_GAP == 5 * 60
\* the instants offered to the store operations lie TimeStep apart (3 minutes)
TimeStep == 3 * 60
\* the instants offered to the function-level operations lie half a JOIN_GAP apart
PointStep == JOIN_GAP \div 2

None == "None"

Kind_OrganizationReserved == 0
Kind_ManagerReserved == 10
Kind_Unavailable == 100

Min(a, b) == IF a <= b THEN a ELSE b
Max(a, b) == IF a >= b THEN a ELSE b

\* datetime.date(): the day an instant falls on
DateOf(t) == t \div DaySeconds
\* datetime.timetz(): seconds since midnight
TimeOf(t) == t % DaySeconds
\* (date.weekday() + 1) % 7, Sunday = 0; day 0 is a Monday (weekday() = 0)
WeekDay(d) == ((d % 7) + 1) % 7
\* datetime.datetime.combine(date, time)
Combine(d, tm) == d * DaySeconds + tm

----------------------------------------------------------------------------
(* Bags and sequences *)

\* QuerySet.filter: the rows of B that are in rows, a subset of DOMAIN B
BagFilter(B, rows) == [e \in rows |-> B[e]]
BagOne(e) == SetToBag({e})
BagSize(B) == BagCardinality(B)

\* the copies of the rows of a bag, told apart by a copy number
BagCopies(B) == UNION {{<<e, k>> : k \in 1..B[e]} : e \in DOMAIN B}

\* every order in which the rows of a bag can be iterated
BagOrders(B) ==
    LET C == BagCopies(B)
        n == Cardinality(C)
    IN  {[i \in 1..n |-> f[i][1]] :
            f \in {g \in [1..n -> C] : \A i, j \in 1..n : i # j => g[i] # g[j]}}

SeqToBag(s) == [e \in {s[i] : i \in DOMAIN s} |-> Cardinality({i \in DOMAIN s : s[i] = e})]

\* list.remove of the element at position i (the elements of the lists of the
\* model are distinct objects, so remove(x) removes x itself)
RemoveAt(s, i) == [j \in 1..(Len(s) - 1) |-> IF j < i THEN s[j] ELSE s[j + 1]]

----------------------------------------------------------------------------
(* IntervalQuerySet *)

Interval(resource, kind, organization, manager, start, end) ==
    [resource |-> resource, kind |-> kind, organization |-> organization,
     manager |-> manager, start |-> start, end |-> end]

\* the SQL condition of between() for datetime arguments
BetweenCond(i, start, end) ==
    /\ \/ (i.start <= start /\ i.end >= end)
       \/ (start <= i.start /\ i.start <= end)
       \/ (start <= i.end /\ i.end <= end)
    /\ i.start # end
    /\ i.end # start

\* between() as it would be without its two exclude() calls
between_closed(qs, start, end) ==
    BagFilter(qs, {i \in DOMAIN qs :
                      \/ (i.start <= start /\ i.end >= end)
                      \/ (start <= i.start /\ i.start <= end)
                      \/ (start <= i.end /\ i.end <= end)})

between(qs, start, end) == BagFilter(qs, {i \in DOMAIN qs : BetweenCond(i, start, end)})

at_date(qs, dt) == BagFilter(qs, {i \in DOMAIN qs : i.start < dt /\ dt < i.end})

SameIdentity(i, j) ==
    /\ i.resource = j.resource
    /\ i.kind = j.kind
    /\ i.organization = j.organization
    /\ i.manager = j.manager

\* similar() as it would be if it compared the resource alone
similar_by_resource(qs, interval, pk) ==
    BagFilter(qs, {i \in DOMAIN qs : i.resource = interval.resource}) (-) pk

\* similar(): pk is the stored row of the interval, as a bag of one row (the
\* empty bag when the interval has no id yet)
similar(qs, interval, pk) ==
    BagFilter(qs, {i \in DOMAIN qs : SameIdentity(i, interval)}) (-) pk

----------------------------------------------------------------------------
(* Interval.join_with_existing *)

\* The in-memory mode: "for interval in existing" with existing.remove(interval)
\* inside the loop.  i is the position the list iterator stands on; a removal
\* shifts the tail left while the iterator still advances.
RECURSIVE JoinListLoop(_, _, _, _, _)
JoinListLoop(self, existing, i, timedelta, changed) ==
    IF i > Len(existing)
    THEN [self |-> self, existing |-> existing, changed |-> changed]
    ELSE LET interval == existing[i] IN
         IF interval.start >= self.start /\ interval.end <= self.end
         THEN JoinListLoop(self, RemoveAt(existing, i), i + 1, timedelta, TRUE)
         ELSE IF interval.start < self.start /\ interval.end > self.end
         THEN JoinListLoop([self EXCEPT !.start = interval.start, !.end = interval.end],
                           RemoveAt(existing, i), i + 1, timedelta, TRUE)
         ELSE IF \/ (interval.start < self.start /\ self.start < interval.end)
                 \/ (self.start > interval.end /\ self.start - interval.end < timedelta)
         THEN JoinListLoop([self EXCEPT !.start = interval.start],
                           RemoveAt(existing, i), i + 1, timedelta, TRUE)
         ELSE IF \/ (interval.start < self.end /\ self.end < interval.end)
                 \/ (interval.start > self.end /\ interval.start - self.end < timedelta)
         THEN JoinListLoop([self EXCEPT !.end = interval.end],
                           RemoveAt(existing, i), i + 1, timedelta, TRUE)
         ELSE JoinListLoop(self, existing, i + 1, timedelta, changed)

join_with_existing_list(self, existing, timedelta) ==
    JoinListLoop(self, existing, 1, timedelta, FALSE)

\* The persistent mode: qs = similar(self).between(start - timedelta, end + timedelta),
\* self is widened to Min(start)/Max(end) of qs and qs is deleted.
join_with_existing_db(self, pk, table, timedelta) ==
    LET qs == between(similar(table, self, pk), self.start - timedelta, self.end + timedelta)
        rows == DOMAIN qs
    IN  IF rows # {}
        THEN LET lo == CHOOSE r \in rows : \A q \in rows : r.start <= q.start
                 hi == CHOOSE r \in rows : \A q \in rows : r.end >= q.end
             IN  [self |-> [self EXCEPT !.start = Min(lo.start, self.start),
                                        !.end = Max(hi.end, self.end)],
                  table |-> table (-) qs,
                  changed |-> TRUE]
        ELSE [self |-> self, table |-> table, changed |-> FALSE]

----------------------------------------------------------------------------
(* IntervalQuerySet.is_continuous *)

RECURSIVE ContinuousLoop(_, _, _)
ContinuousLoop(rows, k, existing) ==
    IF k > Len(rows) THEN existing
    ELSE LET j == join_with_existing_list(rows[k], existing, 0)
         IN  ContinuousLoop(rows, k + 1, Append(j.existing, j.self))

\* rows: the QuerySet in the order it is iterated
is_continuous_seq(rows, start, end) ==
    LET existing == ContinuousLoop(rows, 1, <<>>)
    IN  Len(existing) = 1 /\ existing[1].start <= start /\ existing[1].end >= end

\* the results is_continuous can give for a QuerySet, over its iteration orders
is_continuous(qs, start, end) ==
    {is_continuous_seq(rows, start, end) : rows \in BagOrders(qs)}

----------------------------------------------------------------------------
(* Entities.  Organizations, managers and the resource exist from the      *)
(* start; Manager.organizations is fixed.                                   *)

Resources == {"r1"}
Organizations == {"o1", "o2"}
Managers == {"m1", "m2"}

\* Manager.organizations (many-to-many)
ManagerOrganizations == [m \in Managers |-> {"o1"}]

\* ORDER BY manager_id: ids follow creation order, NULL sorts last
ManagerRank(m) == IF m = "m1" THEN 1 ELSE IF m = "m2" THEN 2 ELSE 3

\* the iteration orders of a QuerySet of Interval under Meta.ordering = ('kind', 'manager')
IntervalOrders(qs) ==
    {rows \in BagOrders(qs) :
        \A a, b \in DOMAIN rows : a < b =>
            \/ rows[a].kind < rows[b].kind
            \/ /\ rows[a].kind = rows[b].kind
               /\ ManagerRank(rows[a].manager) <= ManagerRank(rows[b].manager)}

----------------------------------------------------------------------------
(* ScheduleInterval, Interval.as_schedule_intervals *)

ScheduleInterval(day_of_week, start, end) ==
    [day_of_week |-> day_of_week, start |-> start, end |-> end]

\* datetime.time(23, 59, 59)
EndOfDay == DaySeconds - 1

\* Interval.as_schedule_intervals: one fragment per day from start.date() to end.date()
as_schedule_intervals(interval) ==
    {ScheduleInterval(WeekDay(DateOf(interval.start) + n),
                      IF n = 0 THEN TimeOf(interval.start) ELSE 0,
                      IF DateOf(interval.start) + n = DateOf(interval.end)
                      THEN TimeOf(interval.end) ELSE EndOfDay) :
        n \in 0..(DateOf(interval.end) - DateOf(interval.start))}

\* ScheduleInterval.has_intersection(self, other)
fragment_has_intersection(self, other) ==
    /\ self.day_of_week = other.day_of_week
    /\ \/ (other.start < self.start /\ self.start < other.end)
       \/ (self.start < other.start /\ other.start < self.end)

\* ScheduleIntervalManager.has_intersection: qs is a bag of ScheduleInterval rows
schedule_has_intersection(qs, interval) ==
    LET splitted == as_schedule_intervals(interval)
        days_of_week == {j.day_of_week : j \in splitted}
    IN  \E i \in {x \in DOMAIN qs : x.day_of_week \in days_of_week} :
            \E j \in splitted : fragment_has_intersection(i, j)

\* membership.schedule_intervals: the fragments of one membership, without the key
MembershipSchedule(scheds, membership) ==
    LET own == BagFilter(scheds, {f \in DOMAIN scheds : f.membership = membership})
        strip(f) == ScheduleInterval(f.day_of_week, f.start, f.end)
    IN  [g \in {strip(f) : f \in DOMAIN own} |->
            LET src == CHOOSE f \in DOMAIN own : strip(f) = g IN own[src]]

----------------------------------------------------------------------------
(* Interval.save *)

FilterKind(qs, kind) == BagFilter(qs, {i \in DOMAIN qs : i.kind = kind})
FilterOrganization(qs, organization) == BagFilter(qs, {i \in DOMAIN qs : i.organization = organization})
FilterManager(qs, manager) == BagFilter(qs, {i \in DOMAIN qs : i.manager = manager})
FilterResource(qs, resource) == BagFilter(qs, {i \in DOMAIN qs : i.resource = resource})

\* qs of save(): the other intervals of the resource between start and end
SaveQs(self, pk, table) ==
    FilterResource(between(table, self.start, self.end), self.resource) (-) pk

\* the checks of save() for a ManagerReserved interval as they would be
\* without the check against the organization's time
ManagerReservedErrors_unchecked(self, qs) ==
    IF self.manager = None THEN {"You must specify manager for this interval."}
    ELSE LET reserved == FilterKind(qs, Kind_ManagerReserved)
             others == BagFilter(reserved,
                                 {i \in DOMAIN reserved : i.manager # self.manager})
         IN  IF others # EmptyBag THEN {"This period is reserved for another manager."}
             ELSE {""}

\* The checks of save() for a ManagerReserved interval (lines 397-410)
ManagerReservedErrors(self, qs) ==
    IF self.manager = None THEN {"You must specify manager for this interval."}
    ELSE LET org_qs == FilterOrganization(FilterKind(qs, Kind_OrganizationReserved),
                                          self.organization)
             reserved == FilterKind(qs, Kind_ManagerReserved)
             others == BagFilter(reserved,
                                 {i \in DOMAIN reserved : i.manager # self.manager})
             own_qs == FilterManager(FilterOrganization(
                           FilterKind(qs, Kind_ManagerReserved), self.organization),
                           self.manager)
         IN  UNION {
               IF ~c1 THEN {"This period is't fall within organization time."}
               ELSE IF others # EmptyBag THEN {"This period is reserved for another manager."}
               ELSE {IF c2 THEN "This period is already reserved." ELSE "" :
                        c2 \in is_continuous(own_qs, self.start, self.end)} :
               c1 \in is_continuous(org_qs, self.start, self.end)}

\* The checks of save() for an OrganizationReserved interval (lines 412-422)
OrganizationReservedErrors(self, qs, mems, scheds) ==
    LET org_qs == FilterOrganization(FilterKind(qs, Kind_OrganizationReserved),
                                     self.organization)
        reserved == FilterKind(qs, Kind_OrganizationReserved)
        others == BagFilter(reserved,
                            {i \in DOMAIN reserved : i.organization # self.organization})
        other_memberships == {m \in DOMAIN mems :
                                 m[1] = self.resource /\ m[2] # self.organization}
    IN  {IF c THEN "This period is already reserved for organization."
         ELSE IF others # EmptyBag THEN "This period falls within another organization."
         ELSE IF \E m \in other_memberships :
                    schedule_has_intersection(MembershipSchedule(scheds, m), self)
              THEN "This period falls within another organization's schedule."
         ELSE "" :
            c \in is_continuous(org_qs, self.start, self.end)}

\* The FormErrors save() can raise for self ("" when it raises none); more
\* than one outcome only where is_continuous depends on the iteration order
FormErrors(self, pk, table, mems, scheds) ==
    IF self.start >= self.end
    THEN {"End date must be greater than start date."}
    ELSE IF self.organization = None /\ self.kind # Kind_Unavailable
    THEN {"You must specify organization for this interval."}
    ELSE IF /\ self.organization # None
            /\ self.manager # None
            /\ self.organization \notin ManagerOrganizations[self.manager]
    THEN {"Only managers can reserve time for organization."}
    ELSE IF /\ self.organization # None
            /\ <<self.resource, self.organization>> \notin DOMAIN mems
    THEN {"Resource is not in specified organization."}
    ELSE IF self.kind = Kind_ManagerReserved
    THEN ManagerReservedErrors(self, SaveQs(self, pk, table))
    ELSE IF self.kind = Kind_OrganizationReserved
    THEN OrganizationReservedErrors(self, SaveQs(self, pk, table), mems, scheds)
    ELSE {""}

\* save() as it would be with join_with_existing called before the checks
save_join_first(self, pk, join_existing, table, mems, scheds) ==
    LET j == IF join_existing /\ self.start < self.end
             THEN join_with_existing_db(self, pk, table, JOIN_GAP)
             ELSE [self |-> self, table |-> table, changed |-> FALSE]
    IN  {IF error # ""
         THEN [error |-> error, table |-> j.table, self |-> j.self]
         ELSE [error |-> "", table |-> (j.table (-) pk) (+) BagOne(j.self), self |-> j.self] :
            error \in FormErrors(self, pk, table, mems, scheds)}

\* Interval.save(join_existing): the outcomes [error, table, self]; on an
\* error nothing is written.  pk is the stored row of self (a bag of one row)
\* or the empty bag for an interval that has no id.
save(self, pk, join_existing, table, mems, scheds) ==
    {IF error # ""
     THEN [error |-> error, table |-> table, self |-> self]
     ELSE LET j == IF join_existing
                   THEN join_with_existing_db(self, pk, table, JOIN_GAP)
                   ELSE [self |-> self, table |-> table, changed |-> FALSE]
          IN  [error |-> "", table |-> (j.table (-) pk) (+) BagOne(j.self), self |-> j.self] :
        error \in FormErrors(self, pk, table, mems, scheds)}

----------------------------------------------------------------------------
(* Interval.substract_from_existing, persistent mode *)

\* An outcome of an operation on the Interval table: the FormError that ended
\* it ("" when none did), the table it leaves and the value it returns
Outcome(error, table, result) == [error |-> error, table |-> table, result |-> result]

\* "for interval in qs": rows is qs as it was read, in iteration order; every
\* trimmed row is written by save(join_existing=False), which validates it
RECURSIVE SubstractLoop(_, _, _, _, _, _, _)
SubstractLoop(self, rows, k, table, changed, mems, scheds) ==
    IF k > Len(rows) THEN {Outcome("", table, changed)}
    ELSE LET interval == rows[k]
             pk == BagOne(interval)
             continue(o) == IF o.error # ""
                            THEN {Outcome(o.error, o.table, TRUE)}
                            ELSE SubstractLoop(self, rows, k + 1, o.table, TRUE, mems, scheds)
         IN  IF interval.start < self.start /\ interval.end > self.end
             THEN LET i2 == [interval EXCEPT !.start = self.end]
                  IN  UNION {IF o1.error # ""
                             THEN {Outcome(o1.error, o1.table, TRUE)}
                             ELSE UNION {continue(o2) :
                                    o2 \in save(i2, EmptyBag, FALSE, o1.table, mems, scheds)} :
                         o1 \in save([interval EXCEPT !.end = self.start], pk, FALSE,
                                     table, mems, scheds)}
             ELSE IF interval.start < self.start /\ self.start < interval.end
             THEN UNION {continue(o) :
                     o \in save([interval EXCEPT !.end = self.start], pk, FALSE,
                                table, mems, scheds)}
             ELSE IF interval.start < self.end /\ self.end < interval.end
             THEN UNION {continue(o) :
                     o \in save([interval EXCEPT !.start = self.end], pk, FALSE,
                                table, mems, scheds)}
             ELSE IF interval.start >= self.start /\ interval.end <= self.end
             THEN SubstractLoop(self, rows, k + 1, table (-) pk, TRUE, mems, scheds)
             ELSE SubstractLoop(self, rows, k + 1, table, changed, mems, scheds)

\* self.substract_from_existing(qs) for a QuerySet qs of table
substract_from_existing_db(self, qs, table, mems, scheds) ==
    UNION {SubstractLoop(self, rows, 1, table, FALSE, mems, scheds) :
              rows \in IntervalOrders(qs)}

\* clear_unvailable_interval as it would be if the intervals between start
\* and end were deleted whole instead of being trimmed
clear_unvailable_interval_delete(resource, start, end, table, mems, scheds) ==
    LET i == Interval(resource, Kind_Unavailable, None, None, start, end)
        qs == between(similar(table, i, EmptyBag), start, end)
    IN  {Outcome("", table (-) qs, qs # EmptyBag)}

\* Resource.clear_unvailable_interval(start, end), without its events
clear_unvailable_interval(resource, start, end, table, mems, scheds) ==
    LET i == Interval(resource, Kind_Unavailable, None, None, start, end)
    IN  substract_from_existing_db(i, between(similar(table, i, EmptyBag), start, end),
                                   table, mems, scheds)

\* IntervalQuerySet.managers(): the managers of the reservations of qs
managers(qs) ==
    {i.manager : i \in {x \in DOMAIN qs :
                            /\ x.manager # None
                            /\ x.kind \in {Kind_ManagerReserved, Kind_OrganizationReserved}}}

\* Manager.organizations_for_resource(resource)
organizations_for_resource(manager, resource, mems) ==
    {o \in ManagerOrganizations[manager] : <<resource, o>> \in DOMAIN mems}

\* lines 90-98: one 'clear-unavailable-interval' event per affected manager,
\* with orgs[0] (any of the organizations, None when there is none); the
\* events pushed, as a bag, for every choice of orgs[0]
ClearEvents(resource, start, end, table, mems) ==
    LET affected == managers(between(FilterResource(table, resource), start, end))
        first(m) == IF organizations_for_resource(m, resource, mems) = {} THEN {None}
                    ELSE organizations_for_resource(m, resource, mems)
    IN  {SetToBag({[kind |-> "clear-unavailable-interval", resource |-> resource,
                    manager |-> m, organization |-> f[m], duration |-> <<start, end>>] :
                      m \in affected}) :
            f \in {g \in [affected -> Organizations \cup {None}] :
                      \A m \in affected : g[m] \in first(m)}}

\* clear_unvailable_interval as it would be without "if changed"
clear_unvailable_interval_events_always(resource, start, end, table, mems, scheds) ==
    UNION {{[error |-> o.error, table |-> o.table, result |-> o.result, events |-> ev] :
              ev \in IF o.error = ""
                     THEN ClearEvents(resource, start, end, o.table, mems)
                     ELSE {EmptyBag}} :
        o \in clear_unvailable_interval(resource, start, end, table, mems, scheds)}

\* Resource.clear_unvailable_interval(start, end) with the events it pushes;
\* the saves and deletes of substract_from_existing are made with
\* events=False and push none
clear_unvailable_interval_events(resource, start, end, table, mems, scheds) ==
    UNION {{[error |-> o.error, table |-> o.table, result |-> o.result, events |-> ev] :
              ev \in IF o.error = "" /\ o.result
                     THEN ClearEvents(resource, start, end, o.table, mems)
                     ELSE {EmptyBag}} :
        o \in clear_unvailable_interval(resource, start, end, table, mems, scheds)}

\* Interval.get_event_context()
get_event_context(self) ==
    [interval_kind |-> self.kind, organization |-> self.organization,
     resource |-> self.resource, manager |-> self.manager,
     start |-> self.start, end |-> self.end]

\* lines 437-446: the 'add-unavailable-interval' events of save(), one per
\* manager of qs.managers(); qs was built at line 394 from the start and end
\* the interval had then and is evaluated here, on the table after the
\* write; saved is the interval as written.  The events in every order
\* Manager.objects.filter() may give, for every choice of orgs[0]
AddEvents(self, pk, saved, table, mems) ==
    LET qs == SaveQs(self, IF pk = EmptyBag THEN EmptyBag ELSE BagOne(saved), table)
        affected == managers(qs)
        first(m) == IF organizations_for_resource(m, self.resource, mems) = {} THEN {None}
                    ELSE organizations_for_resource(m, self.resource, mems)
    IN  UNION {BagOrders(SetToBag(
                  {[kind |-> "add-unavailable-interval", resource |-> self.resource,
                    manager |-> m, organization |-> f[m],
                    duration |-> <<saved.start, saved.end>>] : m \in affected})) :
            f \in {g \in [affected -> Organizations \cup {None}] :
                      \A m \in affected : g[m] \in first(m)}}

\* save() as it would be with the 'add-unavailable-interval' events pushed
\* for an interval of any kind
save_events_any_kind(self, pk, join_existing, with_events, table, mems, scheds) ==
    UNION {{[error |-> o.error, table |-> o.table, self |-> o.self, events |-> ev] :
              ev \in IF o.error # "" \/ ~with_events THEN {<<>>}
                     ELSE {<<[kind |-> "create-interval",
                              context |-> get_event_context(o.self)]>> \o adds :
                              adds \in AddEvents(self, pk, o.self, o.table, mems)}} :
        o \in save(self, pk, join_existing, table, mems, scheds)}

\* Interval.save(join_existing, events=events) with the events it pushes, in
\* the order it pushes them
save_events(self, pk, join_existing, with_events, table, mems, scheds) ==
    UNION {{[error |-> o.error, table |-> o.table, self |-> o.self, events |-> ev] :
              ev \in IF o.error # "" \/ ~with_events THEN {<<>>}
                     ELSE {<<[kind |-> "create-interval",
                              context |-> get_event_context(o.self)]>> \o adds :
                              adds \in IF self.kind = Kind_Unavailable
                                       THEN AddEvents(self, pk, o.self, o.table, mems)
                                       ELSE {<<>>}}} :
        o \in save(self, pk, join_existing, table, mems, scheds)}

\* The in-memory mode: "for interval in qs" over the list itself; a trimmed
\* member is changed in place, the right piece of a split is appended to the
\* list being iterated and a member inside self is removed from it, which
\* shifts the tail left while the iterator still advances.
RECURSIVE SubstractListLoop(_, _, _, _)
SubstractListLoop(self, existing, i, changed) ==
    IF i > Len(existing) THEN [existing |-> existing, changed |-> changed]
    ELSE LET interval == existing[i] IN
         IF interval.start < self.start /\ interval.end > self.end
         THEN SubstractListLoop(self,
                  Append([existing EXCEPT ![i].end = self.start],
                         [interval EXCEPT !.start = self.end]),
                  i + 1, TRUE)
         ELSE IF interval.start < self.start /\ self.start < interval.end
         THEN SubstractListLoop(self, [existing EXCEPT ![i].end = self.start], i + 1, TRUE)
         ELSE IF interval.start < self.end /\ self.end < interval.end
         THEN SubstractListLoop(self, [existing EXCEPT ![i].start = self.end], i + 1, TRUE)
         ELSE IF interval.start >= self.start /\ interval.end <= self.end
         THEN SubstractListLoop(self, RemoveAt(existing, i), i + 1, TRUE)
         ELSE SubstractListLoop(self, existing, i + 1, changed)

substract_from_existing_list(self, existing) ==
    SubstractListLoop(self, existing, 1, FALSE)

----------------------------------------------------------------------------
(* ResourceMembership.apply_schedule *)

\* the candidates of one day: the fragments of that week day, in list order
RECURSIVE DayCandidates(_, _, _, _)
DayCandidates(membership, fragments, d, k) ==
    IF k > Len(fragments) THEN <<>>
    ELSE LET si == fragments[k]
             apply_end == Combine(d, si.end)
             apply_start == IF Combine(d, si.start) > apply_end
                            THEN Combine(d, si.start) - DaySeconds
                            ELSE Combine(d, si.start)
             rest == DayCandidates(membership, fragments, d, k + 1)
         IN  IF si.day_of_week = WeekDay(d)
             THEN <<Interval(membership[1], Kind_OrganizationReserved, membership[2], None,
                             apply_start, apply_end)>> \o rest
             ELSE rest

\* the candidates of the days start.date() .. end.date(), in the order they are made
RECURSIVE Candidates(_, _, _, _)
Candidates(membership, fragments, d, last) ==
    IF d > last THEN <<>>
    ELSE DayCandidates(membership, fragments, d, 1)
             \o Candidates(membership, fragments, d + 1, last)

\* interval.join_with_existing(intervals); intervals.append(interval), per candidate
RECURSIVE JoinAppend(_, _, _)
JoinAppend(candidates, k, list) ==
    IF k > Len(candidates) THEN list
    ELSE LET j == join_with_existing_list(candidates[k], list, JOIN_GAP)
         IN  JoinAppend(candidates, k + 1, Append(j.existing, j.self))

\* "for i in intervals: if i.end - i.start < JOIN_GAP: intervals.remove(i)"
RECURSIVE DropShort(_, _)
DropShort(list, i) ==
    IF i > Len(list) THEN list
    ELSE IF list[i].end - list[i].start < JOIN_GAP
    THEN DropShort(RemoveAt(list, i), i + 1)
    ELSE DropShort(list, i + 1)

\* list.sort(key=lambda d: d.start): stable
RECURSIVE SortByStart(_)
SortByStart(list) ==
    IF Len(list) <= 1 THEN list
    ELSE LET front == SortByStart(SubSeq(list, 1, Len(list) - 1))
             x == list[Len(list)]
             n == Cardinality({i \in DOMAIN front : front[i].start <= x.start})
         IN  SubSeq(front, 1, n) \o <<x>> \o SubSeq(front, n + 1, Len(front))

\* lines 586-591: the first and the last of the sorted list are joined with
\* the table, then the whole list is inserted
JoinEndsAndInsert(list, table) ==
    IF Len(list) = 0 THEN table
    ELSE LET j1 == join_with_existing_db(list[1], EmptyBag, table, JOIN_GAP)
             l1 == [list EXCEPT ![1] = j1.self]
             jn == IF Len(list) > 1
                   THEN join_with_existing_db(l1[Len(l1)], EmptyBag, j1.table, JOIN_GAP)
                   ELSE [self |-> l1[Len(l1)], table |-> j1.table, changed |-> FALSE]
             ln == [l1 EXCEPT ![Len(l1)] = jn.self]
         IN  jn.table (+) SeqToBag(ln)

\* the orders in which membership.schedule_intervals.all() is iterated:
\* Meta.ordering = ('membership', 'day_of_week')
ScheduleOrders(qs) ==
    {rows \in BagOrders(qs) :
        \A a, b \in DOMAIN rows : a < b => rows[a].day_of_week <= rows[b].day_of_week}

NoFragments == [given |-> FALSE, list |-> <<>>]
GivenFragments(list) == [given |-> TRUE, list |-> list]

\* apply_schedule(start, end, schedule_intervals, save_as_default); start and
\* end are sets of at most one instant ({} is None).  The outcomes are
\* [error, table, scheds, result].
apply_schedule(membership, start, end, fragments, save_as_default, table, mems, scheds) ==
    LET own == MembershipSchedule(scheds, membership)
        unchanged == {[error |-> "", table |-> table, scheds |-> scheds, result |-> FALSE]}
    IN  IF ~(Len(fragments.list) > 0 \/ BagSize(own) > 0) THEN unchanged
        ELSE IF start = {} \/ end = {} THEN unchanged
        ELSE LET s == CHOOSE t \in start : TRUE
                 e == CHOOSE t \in end : TRUE
             IN  IF s >= e THEN unchanged
                 ELSE LET work_interval == [start |-> s, end |-> e]
                          qs == FilterKind(FilterOrganization(FilterResource(
                                    between(table, s, e), membership[1]), membership[2]),
                                    Kind_OrganizationReserved)
                          used == IF fragments.given THEN {fragments.list}
                                  ELSE ScheduleOrders(own)
                          built(fr) == SortByStart(DropShort(
                                           JoinAppend(Candidates(membership, fr,
                                                                 DateOf(s), DateOf(e)),
                                                      1, <<>>), 1))
                          new_scheds == IF save_as_default /\ fragments.given
                                        THEN BagFilter(scheds,
                                                 {f \in DOMAIN scheds :
                                                      f.membership # membership})
                                             (+) SeqToBag([k \in DOMAIN fragments.list |->
                                                   [membership |-> membership,
                                                    day_of_week |-> fragments.list[k].day_of_week,
                                                    start |-> fragments.list[k].start,
                                                    end |-> fragments.list[k].end]])
                                        ELSE scheds
                      IN  UNION {
                            IF o.error # ""
                            THEN {[error |-> o.error, table |-> o.table,
                                   scheds |-> scheds, result |-> FALSE]}
                            ELSE {[error |-> "",
                                   table |-> JoinEndsAndInsert(built(fr), o.table),
                                   scheds |-> new_scheds, result |-> TRUE] : fr \in used} :
                            o \in substract_from_existing_db(work_interval, qs, table,
                                                             mems, scheds)}

\* extend_schedule as it would be without "self.schedule_extended_date = end"
extend_schedule_unmarked(membership, end, table, mems, scheds) ==
    IF \E w \in mems[membership] : w >= end
    THEN {[error |-> "", table |-> table, scheds |-> scheds, mems |-> mems]}
    ELSE {[error |-> o.error, table |-> o.table, scheds |-> o.scheds, mems |-> mems] :
            o \in apply_schedule(membership, mems[membership], {end}, NoFragments, FALSE,
                                 table, mems, scheds)}

\* membership.extend_schedule(end); mems[membership] is schedule_extended_date,
\* a set of at most one instant ({} is None).  The outcomes are
\* [error, table, scheds, mems].
extend_schedule(membership, end, table, mems, scheds) ==
    IF \E w \in mems[membership] : w >= end
    THEN {[error |-> "", table |-> table, scheds |-> scheds, mems |-> mems]}
    ELSE {[error |-> o.error, table |-> o.table, scheds |-> o.scheds,
           mems |-> IF o.result THEN [mems EXCEPT ![membership] = {end}] ELSE mems] :
            o \in apply_schedule(membership, mems[membership], {end}, NoFragments, FALSE,
                                 table, mems, scheds)}

----------------------------------------------------------------------------
(* ResourceMembership.strip_organization_time, Resource.dismiss_from_organization *)

\* "for i in ...at_date(now)...: i.end = now; i.save()"
RECURSIVE StripLoop(_, _, _, _, _, _)
StripLoop(rows, k, t, table, mems, scheds) ==
    IF k > Len(rows) THEN {Outcome("", table, TRUE)}
    ELSE UNION {IF o.error # ""
                THEN {Outcome(o.error, o.table, FALSE)}
                ELSE StripLoop(rows, k + 1, t, o.table, mems, scheds) :
            o \in save([rows[k] EXCEPT !.end = t], BagOne(rows[k]), TRUE, table, mems, scheds)}

strip_organization_time(membership, t, table, mems, scheds) ==
    LET qs == FilterOrganization(FilterResource(at_date(table, t), membership[1]),
                                 membership[2])
    IN  UNION {StripLoop(rows, 1, t, table, mems, scheds) : rows \in IntervalOrders(qs)}

----------------------------------------------------------------------------
(* Store-level specifications: sequences of the operations of models.py on  *)
(* one database, starting from the empty one.  The operations take the      *)
(* instants they may be called with and the cap on the Interval table.      *)

Ticks(n) == {k * TimeStep : k \in 0..n}

Spans(instants) == {p \in instants \X instants : p[1] < p[2]}

\* the intervals handed to Interval.save: intervals of unavailability without
\* organization and manager, and reservations with an organization
UnavailableIntervals(instants) ==
    {Interval(r, Kind_Unavailable, None, None, p[1], p[2]) :
        r \in Resources, p \in Spans(instants)}

OrganizationIntervals(instants) ==
    {Interval(x[1], Kind_OrganizationReserved, x[2], None, p[1], p[2]) :
        x \in Resources \X Organizations, p \in Spans(instants)}

ManagerIntervals(instants) ==
    {Interval(x[1], Kind_ManagerReserved, x[2], x[3], p[1], p[2]) :
        x \in Resources \X Organizations \X Managers, p \in Spans(instants)}

\* the templates handed to apply_schedule: fragments of the week day of day 0,
\* with start < end, start = end and start > end
FragmentTimes == {2 * t : t \in Ticks(MaxFragmentTick)}
Fragments == {ScheduleInterval(WeekDay(0), t[1], t[2]) : t \in FragmentTimes \X FragmentTimes}
FragmentLists == UNION {[1..n -> Fragments] : n \in 0..MaxFragments}
FragmentInputs == {NoFragments} \cup {GivenFragments(l) : l \in FragmentLists}

\* <<schedule_intervals, save_as_default>> as handed to apply_schedule
Templates ==
    {x \in FragmentInputs \X BOOLEAN :
        x[2] => (x[1].given /\ Len(x[1].list) <= MaxDefaultFragments)}

NoMemberships == [m \in {} |-> {}]

\* no HTTP request is being served: the class attribute refers to the list
\* made when the class was defined (middleware.py line 5)
NoRequests ==
    /\ events = 1
    /\ lists = << <<>> >>
    /\ requests = <<>>

Init ==
    /\ intervals = EmptyBag
    /\ memberships = NoMemberships
    /\ schedule_intervals = EmptyBag
    /\ now = 0
    /\ pc = "store"
    /\ arg_self = None
    /\ arg_list = <<>>
    /\ arg_range = <<0, 0>>
    /\ res_list = None
    /\ res_db = None
    /\ NoRequests

\* Resource.join_organization(organization)
JoinOrganization ==
    \E m \in Resources \X Organizations :
        /\ m \notin DOMAIN memberships
        /\ memberships' = [x \in DOMAIN memberships \cup {m} |->
                              IF x = m THEN {} ELSE memberships[x]]
        /\ UNCHANGED <<intervals, schedule_intervals, now, funcVars, sinkVars>>

\* Interval(...).save() of a new interval
SaveNew(new, cap) ==
    \E self \in new :
        \E o \in save(self, EmptyBag, TRUE, intervals, memberships, schedule_intervals) :
            /\ BagSize(o.table) <= cap
            /\ intervals' = o.table
            /\ UNCHANGED <<memberships, schedule_intervals, now, funcVars, sinkVars>>

\* save() of a stored interval whose start and end were changed
SaveUpdate(instants) ==
    \E old \in DOMAIN intervals, p \in Spans(instants) :
        \E o \in save([old EXCEPT !.start = p[1], !.end = p[2]], BagOne(old), TRUE,
                       intervals, memberships, schedule_intervals) :
            /\ intervals' = o.table
            /\ UNCHANGED <<memberships, schedule_intervals, now, funcVars, sinkVars>>

\* Interval.delete()
Delete ==
    \E old \in DOMAIN intervals :
        /\ intervals' = intervals (-) BagOne(old)
        /\ UNCHANGED <<memberships, schedule_intervals, now, funcVars, sinkVars>>

\* Resource.clear_unvailable_interval(start, end)
ClearUnavailable(instants, cap) ==
    \E r \in Resources, p \in Spans(instants) :
        \E o \in clear_unvailable_interval(r, p[1], p[2], intervals, memberships,
                                            schedule_intervals) :
            /\ BagSize(o.table) <= cap
            /\ intervals' = o.table
            /\ UNCHANGED <<memberships, schedule_intervals, now, funcVars, sinkVars>>

\* membership.apply_schedule(start, end, schedule_intervals, save_as_default)
ApplySchedule(instants, cap) ==
    \E m \in DOMAIN memberships, p \in Spans(instants), x \in Templates :
        \E o \in apply_schedule(m, {p[1]}, {p[2]}, x[1], x[2],
                                 intervals, memberships, schedule_intervals) :
            /\ BagSize(o.table) <= cap
            /\ intervals' = o.table
            /\ schedule_intervals' = o.scheds
            /\ UNCHANGED <<memberships, now, funcVars, sinkVars>>

\* membership.extend_schedule(end)
ExtendSchedule(instants, cap) ==
    \E m \in DOMAIN memberships, end \in instants :
        \E o \in extend_schedule(m, end, intervals, memberships, schedule_intervals) :
            /\ BagSize(o.table) <= cap
            /\ intervals' = o.table
            /\ schedule_intervals' = o.scheds
            /\ memberships' = o.mems
            /\ UNCHANGED <<now, funcVars, sinkVars>>

\* Resource.dismiss_from_organization(organization) at an instant t that is
\* not before the latest time the clock was read: strip_organization_time,
\* then the membership is deleted (its ScheduleInterval rows cascade); a
\* FormError of a save inside ends the call before that
DismissFromOrganization(instants) ==
    \E m \in DOMAIN memberships, t \in {x \in instants : x >= now} :
        \E o \in strip_organization_time(m, t, intervals, memberships, schedule_intervals) :
            /\ now' = t
            /\ intervals' = o.table
            /\ IF o.error = ""
               THEN /\ memberships' = [x \in DOMAIN memberships \ {m} |-> memberships[x]]
                    /\ schedule_intervals' =
                          BagFilter(schedule_intervals, {f \in DOMAIN schedule_intervals : f.membership # m})
               ELSE UNCHANGED <<memberships, schedule_intervals>>
            /\ UNCHANGED <<funcVars, sinkVars>>

\* the operations on intervals and memberships
Next ==
    \/ JoinOrganization
    \/ SaveNew(UnavailableIntervals(Ticks(MaxTick))
                   \cup OrganizationIntervals(Ticks(MaxTick))
                   \cup ManagerIntervals(Ticks(MaxTick)), MaxIntervals)
    \/ SaveUpdate(Ticks(MaxTick))
    \/ Delete
    \/ ClearUnavailable(Ticks(MaxTick), MaxIntervals)
    \/ DismissFromOrganization(Ticks(MaxTick))

Spec == Init /\ [][Next]_vars

\* the operations on schedules, with the reservations for organizations they
\* act on, on fewer instants and a smaller table
ScheduleNext ==
    \/ JoinOrganization
    \/ SaveNew(OrganizationIntervals(Ticks(MaxScheduleTick)), MaxScheduleIntervals)
    \/ Delete
    \/ ApplySchedule(Ticks(MaxScheduleTick), MaxScheduleIntervals)
    \/ ExtendSchedule(Ticks(MaxScheduleTick), MaxScheduleIntervals)
    \/ DismissFromOrganization(Ticks(MaxScheduleTick))

ScheduleSpec == Init /\ [][ScheduleNext]_vars

----------------------------------------------------------------------------
(* Function-level specification: join_with_existing and is_continuous are   *)
(* applied once to arguments drawn from bounded sets.                       *)

Points == {k * PointStep : k \in 0..MaxPoint}

\* the intervals of one identity over Points
PointIntervals ==
    {Interval("r1", Kind_OrganizationReserved, "o1", None, p[1], p[2]) :
        p \in {q \in Points \X Points : q[1] < q[2]}}

PointLists == UNION {[1..n -> PointIntervals] : n \in 0..MaxListLen}

NoResult == [self |-> None]

FuncInit ==
    /\ intervals = EmptyBag
    /\ memberships = NoMemberships
    /\ schedule_intervals = EmptyBag
    /\ now = 0
    /\ pc = "args"
    /\ arg_self \in PointIntervals
    /\ arg_list \in PointLists
    /\ arg_range = <<arg_self.start, arg_self.end>>
    /\ res_list = NoResult
    /\ res_db = NoResult
    /\ NoRequests

\* self.join_with_existing(existing) on a list, and on the same intervals as
\* the rows of the table
JoinBothModes ==
    /\ pc = "args"
    /\ pc' = "joined"
    /\ res_list' = join_with_existing_list(arg_self, arg_list, JOIN_GAP)
    /\ LET j == join_with_existing_db(arg_self, EmptyBag, SeqToBag(arg_list), JOIN_GAP)
       IN  /\ res_db' = [self |-> j.self, changed |-> j.changed]
           /\ intervals' = j.table
    /\ UNCHANGED <<sinkVars, memberships, schedule_intervals, now, arg_self, arg_list, arg_range>>

\* qs.is_continuous(start, end), qs iterated in the order of arg_list
CheckContinuous ==
    /\ pc = "args"
    /\ pc' = "checked"
    /\ res_list' = [continuous |-> is_continuous_seq(arg_list, arg_range[1], arg_range[2])]
    /\ UNCHANGED <<sinkVars, storeVars, arg_self, arg_list, arg_range, res_db>>

\* self.substract_from_existing(existing) on a list
SubstractList ==
    /\ pc = "args"
    /\ pc' = "substracted"
    /\ res_list' = substract_from_existing_list(arg_self, arg_list)
    /\ UNCHANGED <<sinkVars, storeVars, arg_self, arg_list, arg_range, res_db>>

\* an interval of arg_list or arg_self as an interval of unavailability, the
\* kind save() accepts without organization
AsUnavailable(i) == Interval(i.resource, Kind_Unavailable, None, None, i.start, i.end)

\* the table is preloaded with the intervals of arg_list, then arg_self is
\* saved as a new interval
SavePreloaded ==
    /\ pc = "args"
    /\ pc' = "saved"
    /\ \E o \in save(AsUnavailable(arg_self), EmptyBag, TRUE,
                      SeqToBag([k \in DOMAIN arg_list |-> AsUnavailable(arg_list[k])]),
                      memberships, schedule_intervals) :
           /\ intervals' = o.table
           /\ res_db' = [self |-> o.self, error |-> o.error]
    /\ UNCHANGED <<sinkVars, memberships, schedule_intervals, now, arg_self, arg_list, arg_range,
                   res_list>>

\* the resource is a member of every organization
AllMemberships == [m \in Resources \X Organizations |-> {}]

\* the table is preloaded with the intervals of arg_list, OrganizationReserved
\* for o1, then a ManagerReserved interval of m1 with the span of arg_self is
\* saved for one of the organizations
SaveReservation ==
    /\ pc = "args"
    /\ pc' = "reserved"
    /\ \E org \in Organizations :
         LET self == Interval(arg_self.resource, Kind_ManagerReserved, org, "m1",
                              arg_self.start, arg_self.end)
         IN  \E o \in save(self, EmptyBag, TRUE, SeqToBag(arg_list),
                            AllMemberships, EmptyBag) :
                /\ intervals' = o.table
                /\ res_db' = [self |-> self, error |-> o.error]
    /\ UNCHANGED <<sinkVars, memberships, schedule_intervals, now, arg_self, arg_list, arg_range,
                   res_list>>

FuncNext ==
    \/ JoinBothModes
    \/ CheckContinuous
    \/ SubstractList
    \/ SavePreloaded
    \/ SaveReservation

FuncSpec == FuncInit /\ [][FuncNext]_vars

----------------------------------------------------------------------------
(* Schedule-level specification: a membership with a weekly template and   *)
(* no intervals; apply_schedule or extend_schedule is called over a range  *)
(* of whole weeks, and then called again with the same arguments.          *)

ApplyStep == 5 * 60 * 60
ApplyTimes == {k * ApplyStep : k \in 0..MaxApplyTick}

\* Monday and Wednesday
ApplyWeekDays == {WeekDay(0), WeekDay(2)}

\* fragments with start < end, start = end and start > end
ApplyFragments ==
    {ScheduleInterval(d, t[1], t[2]) : d \in ApplyWeekDays, t \in ApplyTimes \X ApplyTimes}

ApplyTemplates == UNION {[1..n -> ApplyFragments] : n \in 1..MaxApplyFragments}

\* ranges that start on day 0, at midnight or later, and last whole weeks
ApplyRanges ==
    {<<s, s + w * 7 * DaySeconds>> : s \in {0, MaxApplyTick * ApplyStep},
                                     w \in 1..MaxApplyWeeks}

ApplyMembership == <<"r1", "o1">>

\* the template arg_list is the persisted schedule of the membership, whose
\* schedule_extended_date is None, the start or the end of the range
ApplyInit ==
    /\ arg_list \in ApplyTemplates
    /\ arg_range \in ApplyRanges
    /\ intervals = EmptyBag
    /\ memberships \in [{ApplyMembership} -> {{}, {arg_range[1]}, {arg_range[2]}}]
    /\ schedule_intervals =
          SeqToBag([k \in DOMAIN arg_list |->
                       [membership |-> ApplyMembership,
                        day_of_week |-> arg_list[k].day_of_week,
                        start |-> arg_list[k].start,
                        end |-> arg_list[k].end]])
    /\ now = 0
    /\ pc = "template"
    /\ arg_self = None
    /\ res_list = None
    /\ res_db = None
    /\ NoRequests

\* the store and the memberships before a call
Before == [table |-> intervals, mems |-> memberships]

\* membership.apply_schedule(start, end, schedule_intervals)
ApplyTemplate(from, to) ==
    /\ pc = from
    /\ pc' = to
    /\ res_db' = Before
    /\ \E o \in apply_schedule(ApplyMembership, {arg_range[1]}, {arg_range[2]},
                                GivenFragments(arg_list), FALSE,
                                intervals, memberships, schedule_intervals) :
          /\ intervals' = o.table
          /\ schedule_intervals' = o.scheds
    /\ UNCHANGED <<sinkVars, memberships, now, arg_self, arg_list, arg_range, res_list>>

\* membership.extend_schedule(end)
ExtendTemplate(from, to) ==
    /\ pc = from
    /\ pc' = to
    /\ res_db' = Before
    /\ \E o \in extend_schedule(ApplyMembership, arg_range[2],
                                 intervals, memberships, schedule_intervals) :
          /\ intervals' = o.table
          /\ schedule_intervals' = o.scheds
          /\ memberships' = o.mems
    /\ UNCHANGED <<sinkVars, now, arg_self, arg_list, arg_range, res_list>>

ApplyNext ==
    \/ ApplyTemplate("template", "applied")
    \/ ApplyTemplate("applied", "applied twice")
    \/ ExtendTemplate("template", "extended")
    \/ ExtendTemplate("extended", "extended twice")

ApplySpec == ApplyInit /\ [][ApplyNext]_vars

----------------------------------------------------------------------------
(* Concurrent saves: two requests save a new interval of unavailability of *)
(* one resource each.  save() of such an interval reads the table in       *)
(* qs.aggregate (line 283) and writes it in qs.delete (286) and in         *)
(* super().save (432); nothing orders the statements of one request with   *)
(* those of the other.                                                     *)

Requests == 1..2

RequestIntervals == UnavailableIntervals(Ticks(MaxRequestTick))

\* pc, arg_list (the interval objects), arg_range (the intervals as they
\* were handed in) and res_list (the bounds of qs) are per request
ConcurrentInit ==
    /\ intervals \in {EmptyBag} \cup {BagOne(i) : i \in RequestIntervals}
    /\ arg_list \in [Requests -> RequestIntervals]
    /\ arg_range = arg_list
    /\ pc = [p \in Requests |-> "aggregate"]
    /\ res_list = [p \in Requests |-> <<0, 0>>]
    /\ memberships = NoMemberships
    /\ schedule_intervals = EmptyBag
    /\ now = 0
    /\ arg_self = None
    /\ res_db = None
    /\ NoRequests

\* qs of join_with_existing (line 277), evaluated on the table as it is now
RequestQs(p, bounds) ==
    between(similar(intervals, arg_list[p], EmptyBag), bounds[1], bounds[2])

\* lines 277-285: qs is built and aggregated; self is widened when qs has rows
Aggregate(p) ==
    /\ pc[p] = "aggregate"
    /\ LET self == arg_list[p]
           bounds == <<self.start - JOIN_GAP, self.end + JOIN_GAP>>
           rows == DOMAIN RequestQs(p, bounds)
       IN  /\ res_list' = [res_list EXCEPT ![p] = bounds]
           /\ IF rows # {}
              THEN LET lo == CHOOSE r \in rows : \A q \in rows : r.start <= q.start
                       hi == CHOOSE r \in rows : \A q \in rows : r.end >= q.end
                   IN  /\ arg_list' = [arg_list EXCEPT
                                          ![p].start = Min(lo.start, self.start),
                                          ![p].end = Max(hi.end, self.end)]
                       /\ pc' = [pc EXCEPT ![p] = "delete"]
              ELSE /\ pc' = [pc EXCEPT ![p] = "insert"]
                   /\ UNCHANGED arg_list
    /\ UNCHANGED <<sinkVars, storeVars, arg_self, arg_range, res_db>>

\* line 286: qs.delete() deletes the rows that match qs now
DeleteQs(p) ==
    /\ pc[p] = "delete"
    /\ intervals' = intervals (-) RequestQs(p, res_list[p])
    /\ pc' = [pc EXCEPT ![p] = "insert"]
    /\ UNCHANGED <<sinkVars, memberships, schedule_intervals, now, arg_self, arg_list, arg_range,
                   res_list, res_db>>

\* line 432: super().save() inserts the row
Insert(p) ==
    /\ pc[p] = "insert"
    /\ intervals' = intervals (+) BagOne(arg_list[p])
    /\ pc' = [pc EXCEPT ![p] = "done"]
    /\ UNCHANGED <<sinkVars, memberships, schedule_intervals, now, arg_self, arg_list, arg_range,
                   res_list, res_db>>

ConcurrentNext == \E p \in Requests : Aggregate(p) \/ DeleteQs(p) \/ Insert(p)

ConcurrentSpec == ConcurrentInit /\ [][ConcurrentNext]_vars

----------------------------------------------------------------------------
(* The event sink: EventDispatchMiddleware (middleware.py), the decorator  *)
(* append_events_data (decorators.py) and the endpoints of views.py that   *)
(* push events.  Requests are served by threads of one process; a request  *)
(* is: process_request, the handler (which pushes events through           *)
(* Interval.save, Interval.delete, clear_unvailable_interval or itself,    *)
(* and returns or raises), then the rendering of the response.             *)

\* the endpoints whose handlers reach push_event_to_response
Endpoints == {"create", "update", "destroy", "delete_many", "membership",
              "apply_schedule", "clear_unavailable_interval"}

\* the handlers wrapped by @append_events_data() in views.py
Decorated == {"create", "update", "delete_many", "apply_schedule",
              "clear_unavailable_interval"}

\* the n-th event pushed by request r
Event(r, n) == [request |-> r, n |-> n]

\* process_request as it would be without "cls.events = []"
process_request_keep(sink, made) == [events |-> sink, lists |-> made]

\* EventDispatchMiddleware.process_request: the class attribute is bound to
\* a new empty list
process_request(sink, made) == [events |-> Len(made) + 1, lists |-> Append(made, <<>>)]

\* push_event_to_response as it would be if it inserted at the front
push_event_to_response_front(sink, made, event) ==
    [made EXCEPT ![sink] = <<event>> \o @]

\* EventDispatchMiddleware.push_event_to_response: cls.events.append(kwargs)
push_event_to_response(sink, made, event) ==
    [made EXCEPT ![sink] = Append(@, event)]

\* a request enters: the middleware runs, then the handler of the endpoint
\* starts.  done is the set of requests that were over by then.
ProcessRequest ==
    /\ Len(requests) < MaxRequests
    /\ \E e \in Endpoints :
         LET m == process_request(events, lists)
         IN  /\ events' = m.events
             /\ lists' = m.lists
             /\ requests' = Append(requests,
                    [pc |-> "handler", endpoint |-> e, pushed |-> <<>>,
                     done |-> {q \in DOMAIN requests : requests[q].pc = "done"},
                     sink |-> <<>>, data |-> 0, body |-> None])
    /\ UNCHANGED <<storeVars, funcVars>>

\* the handler of request r pushes an event
Push(r) ==
    /\ r \in DOMAIN requests
    /\ requests[r].pc = "handler"
    /\ Len(requests[r].pushed) < MaxPushes
    /\ LET event == Event(r, Len(requests[r].pushed) + 1)
       IN  /\ lists' = push_event_to_response(events, lists, event)
           /\ requests' = [requests EXCEPT ![r].pushed = Append(@, event)]
    /\ UNCHANGED <<storeVars, funcVars, events>>

\* the handler of request r returns its Response; sink is the list the class
\* attribute refers to at that moment.  inner2 of append_events_data
\* (decorators.py 12-16) puts that list object in ret.data['events'] when it
\* is not empty; data is the list object put there (0: no 'events' key)
Return(r) ==
    /\ r \in DOMAIN requests
    /\ requests[r].pc = "handler"
    /\ requests' = [requests EXCEPT
          ![r].pc = "returned",
          ![r].sink = lists[events],
          ![r].data = IF requests[r].endpoint \in Decorated /\ lists[events] # <<>>
                      THEN events ELSE 0]
    /\ UNCHANGED <<storeVars, funcVars, events, lists>>

\* the handler of request r raises (FormError, NotFound, PermissionDenied):
\* the response is made by the exception handler from the exception alone
Raise(r) ==
    /\ r \in DOMAIN requests
    /\ requests[r].pc = "handler"
    /\ requests' = [requests EXCEPT ![r].pc = "raised"]
    /\ UNCHANGED <<storeVars, funcVars, events, lists>>

\* the response of request r is rendered: ret.data['events'] is serialized
\* as the list object is then
Render(r) ==
    /\ r \in DOMAIN requests
    /\ requests[r].pc \in {"returned", "raised"}
    /\ requests' = [requests EXCEPT
          ![r].pc = "done",
          ![r].body = IF requests[r].data # 0
                      THEN [events |-> lists[requests[r].data],
                            raised |-> requests[r].pc = "raised"]
                      ELSE [events |-> None, raised |-> requests[r].pc = "raised"]]
    /\ UNCHANGED <<storeVars, funcVars, events, lists>>

EventInit ==
    /\ intervals = EmptyBag
    /\ memberships = NoMemberships
    /\ schedule_intervals = EmptyBag
    /\ now = 0
    /\ pc = "requests"
    /\ arg_self = None
    /\ arg_list = <<>>
    /\ arg_range = <<0, 0>>
    /\ res_list = None
    /\ res_db = None
    /\ NoRequests

EventNext ==
    \/ ProcessRequest
    \/ \E r \in 1..MaxRequests : Push(r) \/ Return(r) \/ Raise(r) \/ Render(r)

EventSpec == EventInit /\ [][EventNext]_vars

----------------------------------------------------------------------------
(* The interval endpoints: IntervalViewSet (views.py 279-318) with its      *)
(* permission classes (permissions.py) and the related fields of its       *)
(* serializer (fields.py).  Two client services share the database; each   *)
(* has one resource and one manager, under the same msa_id values.  The    *)
(* endpoints create, update and delete intervals of unavailability; the    *)
(* events they push are the subject of the event sink above.               *)

Apps == {"a", "b"}

\* the values of msa_id, of the primary keys and of author_id
Ids == {1, 2}

\* tables Resource and Manager (ApiModelMixIn: id, app, msa_id); name is what
\* a row of Interval holds in its resource and manager columns
ResourceTable ==
    {[name |-> "r1", id |-> 1, app |-> "a", msa_id |-> 1],
     [name |-> "r2", id |-> 2, app |-> "b", msa_id |-> 1]}

ManagerTable ==
    {[name |-> "m1", id |-> 1, app |-> "a", msa_id |-> 2],
     [name |-> "m2", id |-> 2, app |-> "b", msa_id |-> 2]}

\* HasValidApiKey.has_permission: request.app is the app of the key; None
\* stands for a request whose key is unknown or inactive
has_permission(request) == request.app # None

\* IntervalPermission.has_object_permission; GET is the query string
has_object_permission(request, obj, resource_rows, manager_rows) ==
    /\ "author_id" \in DOMAIN request.GET
    /\ \/ \E m \in manager_rows :
            /\ m.msa_id = request.GET["author_id"]
            /\ m.app = request.app
            /\ obj.manager = m.name
       \/ \E r \in resource_rows :
            /\ r.msa_id = request.GET["author_id"]
            /\ r.app = request.app
            /\ obj.resource = r.name
            /\ obj.kind = Kind_Unavailable

\* MsaIdRelatedField.to_internal_value: the row of the caller's app with
\* this msa_id, otherwise (PrimaryKeyRelatedField) the row with this primary
\* key; the empty set when there is neither
to_internal_value(data, app, rows) ==
    IF \E x \in rows : x.msa_id = data /\ x.app = app
    THEN {x.name : x \in {y \in rows : y.msa_id = data /\ y.app = app}}
    ELSE {x.name : x \in {y \in rows : y.id = data}}

\* the resource and manager a request body resolves to; manager is not
\* required (null=True) and keeps the value absent when it is not given
validated_resource(data, app, resource_rows) ==
    to_internal_value(data["resource"], app, resource_rows)

validated_manager(data, app, manager_rows, absent) ==
    IF "manager" \in DOMAIN data
    THEN to_internal_value(data["manager"], app, manager_rows)
    ELSE {absent}

\* a response [status, table]: the HTTP status and the Interval table after
Response(status, table) == [status |-> status, table |-> table]

\* IntervalViewSet.create: check_permissions, the serializer, Interval.save;
\* a FormError is a ValidationError (exceptions.py)
create(request, data, table, mems, scheds, resource_rows, manager_rows) ==
    IF ~has_permission(request) THEN {Response(403, table)}
    ELSE LET rs == validated_resource(data, request.app, resource_rows)
             ms == validated_manager(data, request.app, manager_rows, None)
         IN  IF rs = {} \/ ms = {} THEN {Response(400, table)}
             ELSE UNION {
                    {Response(IF o.error = "" THEN 201 ELSE 400, o.table) :
                        o \in save(Interval(x[1], Kind_Unavailable, None, x[2],
                                            data["start"], data["end"]),
                                   EmptyBag, TRUE, table, mems, scheds)} :
                    x \in rs \X ms}

\* IntervalViewSet.update: check_permissions, get_object over the queryset
\* of line 283 with check_object_permissions, the serializer, Interval.save
update(request, obj, data, table, mems, scheds, resource_rows, manager_rows) ==
    IF ~has_permission(request) THEN {Response(403, table)}
    ELSE IF ~BagIn(obj, table) THEN {Response(404, table)}
    ELSE IF ~has_object_permission(request, obj, resource_rows, manager_rows)
    THEN {Response(403, table)}
    ELSE LET rs == validated_resource(data, request.app, resource_rows)
             ms == validated_manager(data, request.app, manager_rows, obj.manager)
         IN  IF rs = {} \/ ms = {} THEN {Response(400, table)}
             ELSE UNION {
                    {Response(IF o.error = "" THEN 200 ELSE 400, o.table) :
                        o \in save([obj EXCEPT !.resource = x[1], !.manager = x[2],
                                               !.start = data["start"],
                                               !.end = data["end"]],
                                   BagOne(obj), TRUE, table, mems, scheds)} :
                    x \in rs \X ms}

\* DestroyModelMixin.destroy: check_permissions, get_object, Interval.delete
destroy(request, obj, table, resource_rows, manager_rows) ==
    IF ~has_permission(request) THEN Response(403, table)
    ELSE IF ~BagIn(obj, table) THEN Response(404, table)
    ELSE IF ~has_object_permission(request, obj, resource_rows, manager_rows)
    THEN Response(403, table)
    ELSE Response(204, table (-) BagOne(obj))

\* IntervalViewSet.delete_many: destroy for every id in turn; the exception
\* of one destroy ends the request and keeps what was deleted before it
RECURSIVE delete_many(_, _, _, _, _)
delete_many(request, ids, table, resource_rows, manager_rows) ==
    IF ~has_permission(request) THEN Response(403, table)
    ELSE IF ids = <<>> THEN Response(200, table)
    ELSE LET o == destroy(request, Head(ids), table, resource_rows, manager_rows)
         IN  IF o.status # 204 THEN o
             ELSE delete_many(request, Tail(ids), o.table, resource_rows, manager_rows)

\* the query strings: without author_id, or with one
Queries == UNION {[k -> Ids] : k \in {{}, {"author_id"}}}

ViewRequests == [app : Apps \cup {None}, GET : Queries]

\* the request bodies: resource, start and end, with or without manager
ViewData ==
    UNION {{d \in [k -> Ids \cup Ticks(MaxViewTick)] :
              /\ d["resource"] \in Ids
              /\ "manager" \in k => d["manager"] \in Ids
              /\ <<d["start"], d["end"]>> \in Spans(Ticks(MaxViewTick))} :
        k \in {{"resource", "start", "end"}, {"resource", "manager", "start", "end"}}}

ViewInit ==
    /\ intervals = EmptyBag
    /\ memberships = NoMemberships
    /\ schedule_intervals = EmptyBag
    /\ now = 0
    /\ pc = "views"
    /\ arg_self = None
    /\ arg_list = <<>>
    /\ arg_range = <<0, 0>>
    /\ res_list = None
    /\ res_db = 0
    /\ NoRequests

\* a request is served: the table is written and res_db keeps the status of
\* the response
Serve(o) ==
    /\ BagSize(o.table) <= MaxViewIntervals
    /\ intervals' = o.table
    /\ res_db' = o.status
    /\ UNCHANGED <<memberships, schedule_intervals, now, pc, arg_self, arg_list,
                   arg_range, res_list, sinkVars>>

Create ==
    \E request \in ViewRequests, data \in ViewData :
        \E o \in create(request, data, intervals, memberships, schedule_intervals,
                        ResourceTable, ManagerTable) : Serve(o)

Update ==
    \E request \in ViewRequests, data \in ViewData :
        \E obj \in DOMAIN intervals :
            \E o \in update(request, obj, data, intervals, memberships,
                            schedule_intervals, ResourceTable, ManagerTable) : Serve(o)

Destroy ==
    \E request \in ViewRequests :
        \E obj \in DOMAIN intervals :
            Serve(destroy(request, obj, intervals, ResourceTable, ManagerTable))

DeleteMany ==
    \E request \in ViewRequests :
        \E ids \in UNION {[1..n -> DOMAIN intervals] : n \in 0..MaxIds} :
            Serve(delete_many(request, ids, intervals, ResourceTable, ManagerTable))

ViewNext == Create \/ Update \/ Destroy \/ DeleteMany

ViewSpec == ViewInit /\ [][ViewNext]_vars

----------------------------------------------------------------------------
(* Watermark-level specification: a membership with a persisted weekly     *)
(* template; the apply_schedule endpoint is requested and extend_schedule  *)
(* is called, any number of times and in any order.                        *)

MaxWatermarkWeeks == 1       \* watermark-level: extend_schedule is called up to this many weeks past the range
MaxWatermarkFragments == 1   \* watermark-level: fragments of the persisted template

\* models.py line 174
EXTENDABLE_INTERVALS_MIN_DURATION == 40 * DaySeconds

\* the key True of the calls parse_args(parse_datetime, request.data, True,
\* 'start', 'end'): the keys of a request body are strings, none equals it
PyTrue == "True (bool)"

\* parse_args as it would be if a boolean among the keys were a flag and a
\* missing key gave None: one value ({} is None) for each string key
parse_args_optional(querydict, keys) ==
    LET named == SelectSeq(keys, LAMBDA k : k # PyTrue)
    IN  [error |-> FALSE,
         values |-> [k \in DOMAIN named |->
                        IF named[k] \in DOMAIN querydict
                        THEN {querydict[named[k]]} ELSE {}]]

\* utils.parse_args(func, querydict, *keys): querydict.get(key) is None for
\* a missing key, func(None) raises TypeError, and the FormError leaves the
\* loop; otherwise one value for each key
parse_args(querydict, keys) ==
    IF \A k \in DOMAIN keys : keys[k] \in DOMAIN querydict
    THEN [error |-> FALSE, values |-> [k \in DOMAIN keys |-> {querydict[keys[k]]}]]
    ELSE [error |-> TRUE, values |-> <<>>]

\* ResourceViewSet.apply_schedule (views.py 196-254) for the body data and
\* the validated schedule_intervals fragments, served at instant t.  The
\* outcomes are [error, table, scheds, mems]; nothing is rolled back.
apply_schedule_view(data, fragments, membership, t, table, mems, scheds) ==
    LET args == parse_args(data, <<PyTrue, "start", "end">>)
        same(error) == {[error |-> error, table |-> table, scheds |-> scheds,
                         mems |-> mems]}
    IN  IF args.error THEN same("FormError")
        \* start, end = ...: as many values as names
        ELSE IF Len(args.values) # 2 THEN same("ValueError")
        ELSE IF membership \notin DOMAIN mems THEN same("Http404")
        ELSE LET permanent == args.values[2] = {}
                 start == IF args.values[1] = {} THEN t
                          ELSE CHOOSE s \in args.values[1] : TRUE
                 end == IF args.values[2] = {}
                        THEN start + EXTENDABLE_INTERVALS_MIN_DURATION
                        ELSE CHOOSE e \in args.values[2] : TRUE
             IN  {IF o.error # ""
                  THEN [error |-> o.error, table |-> o.table, scheds |-> o.scheds,
                        mems |-> mems]
                  ELSE IF o.result
                  \* lines 241-243, then line 245: EventDispatcher has no
                  \* push_event_to_responce
                  THEN [error |-> "AttributeError", table |-> o.table,
                        scheds |-> o.scheds,
                        mems |-> IF \/ permanent
                                    \/ mems[membership] = {}
                                    \/ \E w \in mems[membership] : w < end
                                 THEN [mems EXCEPT ![membership] = {end}]
                                 ELSE mems]
                  ELSE [error |-> "", table |-> o.table, scheds |-> o.scheds,
                        mems |-> mems] :
                    o \in apply_schedule(membership, {start}, {end},
                                         GivenFragments(fragments), permanent,
                                         table, mems, scheds)}

\* the bodies of the requests: start and end are given or left out
WatermarkBodies ==
    UNION {[given -> {arg_range[1], arg_range[2]}] : given \in SUBSET {"start", "end"}}

\* the ends extend_schedule is called with
WatermarkEnds ==
    {arg_range[1], arg_range[2]} \cup
    {arg_range[2] + w * 7 * DaySeconds : w \in 1..MaxWatermarkWeeks}

\* as ApplyInit, with a shorter template; arg_self holds the body of
\* the last request served (none yet)
WatermarkInit ==
    /\ arg_list \in [1..MaxWatermarkFragments -> ApplyFragments]
    /\ arg_range \in ApplyRanges
    /\ intervals = EmptyBag
    /\ memberships \in [{ApplyMembership} -> {{}, {arg_range[1]}, {arg_range[2]}}]
    /\ schedule_intervals =
          SeqToBag([k \in DOMAIN arg_list |->
                       [membership |-> ApplyMembership,
                        day_of_week |-> arg_list[k].day_of_week,
                        start |-> arg_list[k].start,
                        end |-> arg_list[k].end]])
    /\ now = 0
    /\ pc = "template"
    /\ arg_self = {}
    /\ res_list = None
    /\ res_db = None
    /\ NoRequests

\* POST /resource/{id}/apply_schedule/
RequestSchedule ==
    \E data \in WatermarkBodies, fragments \in {<<>>, arg_list} :
        /\ pc' = "requested"
        /\ arg_self' = {data}
        /\ res_db' = Before
        /\ \E o \in apply_schedule_view(data, fragments, ApplyMembership, now,
                                        intervals, memberships, schedule_intervals) :
              /\ intervals' = o.table
              /\ schedule_intervals' = o.scheds
              /\ memberships' = o.mems
        /\ UNCHANGED <<sinkVars, now, arg_list, arg_range, res_list>>

\* membership.extend_schedule(end)
ExtendTo ==
    \E end \in WatermarkEnds :
        /\ pc' = "extended"
        /\ res_db' = Before
        /\ \E o \in extend_schedule(ApplyMembership, end,
                                    intervals, memberships, schedule_intervals) :
              /\ intervals' = o.table
              /\ schedule_intervals' = o.scheds
              /\ memberships' = o.mems
        /\ UNCHANGED <<sinkVars, now, arg_self, arg_list, arg_range, res_list>>

WatermarkNext ==
    \/ RequestSchedule
    \/ ExtendTo

WatermarkSpec == WatermarkInit /\ [][WatermarkNext]_vars

----------------------------------------------------------------------------
(* Vocabulary of the properties *)

SeqSet(s) == {s[i] : i \in DOMAIN s}

\* two intervals overlap, touch, or lie less than tol apart
Near(i, j, tol) == i.start - j.end < tol /\ j.start - i.end < tol

\* two intervals share a span of positive length
Overlap(i, j) == i.start < j.end /\ j.start < i.end

\* a list of intervals is canonical: its members are pairwise at least tol apart
CanonicalSeq(s, tol) ==
    \A i, j \in DOMAIN s : i # j => ~Near(s[i], s[j], tol)

\* the union of rows covers [start, end] without gap; every bound of the
\* model is a multiple of step, so it is enough to look at the segments
\* [k, k + step] of [start, end]
Covers(rows, start, end, step) ==
    \A k \in {start + n * step : n \in 0..((end - start) \div step)} :
        k + step <= end => \E i \in rows : i.start <= k /\ k + step <= i.end

----------------------------------------------------------------------------
(* Properties of the function-level specification (FuncSpec) *)

\* C8: is_continuous(start, end) returns True if and only if the union of the
\* intervals of the collection covers [start, end] without gap.
C8_ContinuousIffCovers ==
    pc = "checked" =>
        (res_list.continuous <=> Covers(SeqSet(arg_list), arg_range[1], arg_range[2], PointStep))

\* C9: after the in-memory join on a canonical list, self is the smallest
\* interval covering its span and every member that overlapped it or lay
\* within JOIN_GAP of it, those members are gone from the list, and no member
\* left in the list is that near to self.
C9_JoinListPostcondition ==
    (pc = "joined" /\ CanonicalSeq(arg_list, JOIN_GAP)) =>
        LET near == {m \in SeqSet(arg_list) : Near(m, arg_self, JOIN_GAP)}
            hull == {arg_self} \cup near
        IN  /\ \A m \in hull : res_list.self.start <= m.start /\ m.end <= res_list.self.end
            /\ \E m \in hull : res_list.self.start = m.start
            /\ \E m \in hull : res_list.self.end = m.end
            /\ SeqSet(res_list.existing) = SeqSet(arg_list) \ near
            /\ \A m \in SeqSet(res_list.existing) : ~Near(m, res_list.self, JOIN_GAP)

\* C10: on the same interval and the same similar intervals the persistent
\* mode and the in-memory mode of join_with_existing give the same bounds to
\* self and leave the same intervals.
C10_ModesAgree ==
    pc = "joined" =>
        /\ res_list.self = res_db.self
        /\ SeqToBag(res_list.existing) = intervals

\* the segments [k, k + step] of [lo, hi] that rows cover
CoveredSegments(rows, lo, hi, step) ==
    {k \in {lo + n * step : n \in 0..((hi - lo) \div step)} :
        k + step <= hi /\ \E i \in rows : i.start <= k /\ k + step <= i.end}

\* C11: after I.substract_from_existing(W) on a list W no member of W overlaps
\* the open span of I, and every instant W covered outside I's span is still
\* covered.
C11_SubstractListPostcondition ==
    pc = "substracted" =>
        LET lo == 0
            hi == MaxPoint * PointStep
            before == CoveredSegments(SeqSet(arg_list), lo, hi, PointStep)
            after == CoveredSegments(SeqSet(res_list.existing), lo, hi, PointStep)
            inside == {k \in before : arg_self.start <= k /\ k + PointStep <= arg_self.end}
        IN  /\ \A m \in SeqSet(res_list.existing) : ~Overlap(m, arg_self)
            /\ before \ inside \subseteq after

\* C13: when the store holds A and B of one identity that overlap each other
\* and C of that identity, overlapping only B, is saved, exactly one interval
\* of the identity remains, from the least start to the greatest end of A, B
\* and C.
C13_SaveJoinsChain ==
    (/\ pc = "saved"
     /\ Len(arg_list) = 2
     /\ Overlap(arg_list[1], arg_list[2])
     /\ Overlap(arg_self, arg_list[2])
     /\ ~Overlap(arg_self, arg_list[1])) =>
        LET all == {arg_self, arg_list[1], arg_list[2]}
            lo == CHOOSE x \in {i.start : i \in all} : \A i \in all : x <= i.start
            hi == CHOOSE x \in {i.end : i \in all} : \A i \in all : x >= i.end
        IN  intervals = BagOne(Interval("r1", Kind_Unavailable, None, None, lo, hi))

\* the preloaded OrganizationReserved intervals of the organization of the
\* saved reservation leave a gap inside its span or do not reach its ends
ReservationUncovered ==
    ~Covers({i \in SeqSet(arg_list) : i.organization = res_db.self.organization},
            res_db.self.start, res_db.self.end, PointStep)

\* C14 as stated: the save of a ManagerReserved interval is rejected with
\* "isn't fall within organization time" whenever the stored
\* OrganizationReserved intervals of its resource and organization do not
\* cover its span, and nothing is stored or changed.
C14_RejectedOutsideOrganizationTime ==
    (pc = "reserved" /\ ReservationUncovered) =>
        /\ res_db.error = "This period is't fall within organization time."
        /\ intervals = SeqToBag(arg_list)

\* C14, amended: such a save is rejected and nothing is stored or changed;
\* the FormError is "isn't fall within organization time" when the manager
\* belongs to the organization and the resource is a member of it, and the
\* FormError of the earlier check otherwise.
C14_RejectedOutsideOrganizationTime_Amended ==
    (pc = "reserved" /\ ReservationUncovered) =>
        /\ res_db.error # ""
        /\ intervals = SeqToBag(arg_list)
        /\ res_db.error = IF res_db.self.organization
                                 \in ManagerOrganizations[res_db.self.manager]
                          THEN "This period is't fall within organization time."
                          ELSE "Only managers can reserve time for organization."

\* scenario S3: two OrganizationReserved intervals with a gap between them,
\* and a reservation from the start of the first to the end of the second
\* was rejected
C14_Witness ==
    /\ pc = "reserved"
    /\ Len(arg_list) = 2
    /\ arg_list[1].start = res_db.self.start
    /\ arg_list[1].end < arg_list[2].start
    /\ arg_list[2].end = res_db.self.end
    /\ res_db.self.organization = arg_list[1].organization
    /\ res_db.error = "This period is't fall within organization time."

----------------------------------------------------------------------------
(* Properties of the store-level specifications (Spec, ScheduleSpec) *)

\* the stored rows, two equal rows told apart by their copy number
StoredRows == BagCopies(intervals)

\* the rows of one (resource, kind, organization, manager) are pairwise
\* non-overlapping and at least tol apart
CanonicalRows(rows, tol) ==
    \A x, y \in rows :
        (x # y /\ SameIdentity(x[1], y[1])) => ~Near(x[1], y[1], tol)

\* C1: after any sequence of Interval.save, Interval.delete and
\* clear_unvailable_interval from the empty store, two distinct stored
\* intervals of the same (resource, kind, organization, manager) neither
\* overlap nor lie less than JOIN_GAP apart.
C1_StoreCanonical == CanonicalRows(StoredRows, JOIN_GAP)

\* C2: every stored ManagerReserved interval of (resource, organization) is
\* covered without gap by the stored OrganizationReserved intervals of
\* (resource, organization).
C2_ManagerReservedCovered ==
    \A m \in DOMAIN intervals :
        m.kind = Kind_ManagerReserved =>
            Covers({o \in DOMAIN intervals :
                        /\ o.kind = Kind_OrganizationReserved
                        /\ o.resource = m.resource
                        /\ o.organization = m.organization},
                   m.start, m.end, TimeStep)

\* C3: no two stored ManagerReserved intervals of one resource that belong
\* to different managers overlap in time.
C3_ManagersDisjoint ==
    \A m, n \in DOMAIN intervals :
        (/\ m.kind = Kind_ManagerReserved
         /\ n.kind = Kind_ManagerReserved
         /\ m.resource = n.resource
         /\ m.manager # n.manager) => ~Overlap(m, n)

\* the stored OrganizationReserved rows of one membership
OrganizationRows(rows, membership) ==
    {x \in rows : /\ x[1].kind = Kind_OrganizationReserved
                  /\ x[1].resource = membership[1]
                  /\ x[1].organization = membership[2]}

\* a step of apply_schedule on membership m that returns True
AppliedSchedule(m) ==
    \E p \in Spans(Ticks(MaxScheduleTick)), x \in Templates :
        \E o \in apply_schedule(m, {p[1]}, {p[2]}, x[1], x[2],
                                 intervals, memberships, schedule_intervals) :
            /\ o.error = ""
            /\ o.result
            /\ intervals' = o.table
            /\ schedule_intervals' = o.scheds

\* C4: a successful apply_schedule on a canonical store leaves the stored
\* OrganizationReserved intervals of its (resource, organization) pairwise
\* non-overlapping and at least JOIN_GAP apart.
C4_ApplyScheduleCanonical ==
    [][\A m \in DOMAIN memberships :
          (CanonicalRows(StoredRows, JOIN_GAP) /\ AppliedSchedule(m)) =>
              CanonicalRows(OrganizationRows(StoredRows, m), JOIN_GAP)']_vars

\* C5: every stored interval satisfies start < end.
C5_StartBeforeEnd == \A i \in DOMAIN intervals : i.start < i.end

\* C6: the persisted schedules of two memberships of one resource in
\* different organizations never intersect: no pair of fragments with the
\* same day_of_week and overlapping time ranges.
C6_SchedulesDisjoint ==
    \A f, g \in DOMAIN schedule_intervals :
        (/\ f.membership[1] = g.membership[1]
         /\ f.membership[2] # g.membership[2]
         /\ f.day_of_week = g.day_of_week) => ~(f.start < g.end /\ g.start < f.end)

\* C7: every stored interval that names an organization and a resource has
\* a ResourceMembership of that (resource, organization).
C7_IntervalsHaveMembership ==
    \A i \in DOMAIN intervals :
        i.organization # None => <<i.resource, i.organization>> \in DOMAIN memberships

\* the rows clear_unvailable_interval(resource, ...) looks at: Unavailable,
\* of the resource, without organization and manager
UnavailableOf(table, resource) ==
    BagFilter(table, {i \in DOMAIN table :
        SameIdentity(i, Interval(resource, Kind_Unavailable, None, None, 0, 0))})

\* what is left of a row once the span from start to end is taken out of it
Remainder(i, start, end) ==
    IF ~Overlap(i, [start |-> start, end |-> end]) THEN {i}
    ELSE (IF i.start < start THEN {[i EXCEPT !.end = start]} ELSE {})
         \cup (IF i.end > end THEN {[i EXCEPT !.start = end]} ELSE {})

\* outcome o of clear_unvailable_interval(resource, start, end) on table
ClearPostcondition(table, resource, start, end, o) ==
    LET before == UnavailableOf(table, resource)
        after == UnavailableOf(o.table, resource)
        span == [start |-> start, end |-> end]
    IN  /\ o.error = ""
        /\ \A i \in DOMAIN after : ~Overlap(i, span)
        /\ DOMAIN after = UNION {Remainder(i, start, end) : i \in DOMAIN before}
        /\ \A i \in DOMAIN before : ~Overlap(i, span) => after[i] >= before[i]
        /\ o.table (-) after = table (-) before
        /\ o.result <=> \E i \in DOMAIN before : Overlap(i, span)
        /\ o.result <=> o.table # table

\* C12: in every store the operations reach, after clear_unvailable_interval(
\* start, end) no stored Unavailable interval of the resource without
\* organization and manager overlaps the open span (start, end), the parts of
\* such intervals outside [start, end] remain stored, trimmed or split into a
\* left and a right piece, every other row is untouched, and the call returns
\* True exactly when an interval was trimmed, split or deleted.
C12_ClearUnavailablePostcondition ==
    \A r \in Resources, p \in Spans(Ticks(MaxTick)) :
        \A o \in clear_unvailable_interval(r, p[1], p[2], intervals, memberships,
                                            schedule_intervals) :
            ClearPostcondition(intervals, r, p[1], p[2], o)

\* a stored interval of unavailability was split in two by a cleared span
\* shorter than JOIN_GAP: both pieces are stored
C12_Witness ==
    \E i, j \in DOMAIN intervals :
        /\ i.kind = Kind_Unavailable /\ j.kind = Kind_Unavailable
        /\ i.resource = j.resource
        /\ i.end < j.start /\ j.start - i.end < JOIN_GAP

\* two fragments of one week day whose time ranges share more than an instant
FragmentsOverlap(f, g) ==
    /\ f.day_of_week = g.day_of_week
    /\ f.start < f.end
    /\ g.start < g.end
    /\ Max(f.start, g.start) < Min(f.end, g.end)

\* the weekly decomposition of the interval overlaps a fragment of another
\* membership of its resource
OverlapsOtherSchedule(self) ==
    \E m \in DOMAIN memberships :
        /\ m[1] = self.resource
        /\ m[2] # self.organization
        /\ \E f \in DOMAIN MembershipSchedule(schedule_intervals, m),
              g \in as_schedule_intervals(self) : FragmentsOverlap(f, g)

\* C15: the save of an OrganizationReserved interval is rejected whenever its
\* weekly decomposition overlaps in week day and time a schedule fragment of
\* another membership of its resource, whatever the relative position of
\* the two time ranges (equal start times and containment included).
C15_ScheduleConflictRejected ==
    \A self \in OrganizationIntervals(Ticks(MaxScheduleTick)) :
        OverlapsOtherSchedule(self) =>
            \A o \in save(self, EmptyBag, TRUE, intervals, memberships, schedule_intervals) :
                o.error # ""

----------------------------------------------------------------------------
(* Properties of the schedule-level specification (ApplySpec) *)

\* a template of fragments with start < end, no two of which overlap
DisjointTemplate(list) ==
    /\ \A k \in DOMAIN list : list[k].start < list[k].end
    /\ \A a, b \in DOMAIN list : a # b => ~FragmentsOverlap(list[a], list[b])

\* the fragments of the template projected on the dates of [start, end],
\* those whose span lies inside [start, end]
ProjectedInside(membership, list, start, end) ==
    {Interval(membership[1], Kind_OrganizationReserved, membership[2], None,
              Combine(x[1], list[x[2]].start), Combine(x[1], list[x[2]].end)) :
        x \in {y \in (DateOf(start)..DateOf(end)) \X DOMAIN list :
                  /\ list[y[2]].day_of_week = WeekDay(y[1])
                  /\ start <= Combine(y[1], list[y[2]].start)
                  /\ Combine(y[1], list[y[2]].end) <= end}}

\* C16: after apply_schedule(start, end) on a membership without
\* OrganizationReserved intervals and with a template of pairwise disjoint
\* fragments, the stored intervals are exactly one interval per (date,
\* fragment) whose projected span lies inside [start, end]; none is created
\* outside [start, end].
C16_ApplyScheduleExact ==
    (pc = "applied" /\ DisjointTemplate(arg_list)) =>
        intervals = SetToBag(ProjectedInside(ApplyMembership, arg_list,
                                             arg_range[1], arg_range[2]))

\* C17: re-running apply_schedule with the same (start, end, fragments) is a
\* no-op on the store: the stored OrganizationReserved intervals after the
\* second call are those after the first call, none of them duplicated and
\* no two of them overlapping.
C17_ReapplyIsNoOp ==
    pc = "applied twice" =>
        /\ intervals = res_db.table
        /\ \A i \in DOMAIN intervals : intervals[i] = 1
        /\ \A i, j \in DOMAIN intervals : i # j => ~Overlap(i, j)

\* the duration of a fragment; a fragment with start > end begins the day before
FragmentDuration(f) ==
    IF f.start > f.end THEN f.end + DaySeconds - f.start ELSE f.end - f.start

\* the fragments of the template that are at least JOIN_GAP long
LongFragments(list) == {f \in SeqSet(list) : FragmentDuration(f) >= JOIN_GAP}

\* as_schedule_intervals() of every stored interval
StoredFragments == UNION {as_schedule_intervals(i) : i \in DOMAIN intervals}

OneWeekRange == arg_range[2] - arg_range[1] = 7 * DaySeconds

\* C18: for a weekly template and a one-week range, apply_schedule followed
\* by as_schedule_intervals() of each produced interval yields exactly the
\* fragments of the template, apart from those shorter than JOIN_GAP.
C18_RoundTrip ==
    (pc = "applied" /\ OneWeekRange) => StoredFragments = LongFragments(arg_list)

\* the call changed neither the stored intervals nor the watermark
SameAsBefore == intervals = res_db.table /\ memberships = res_db.mems

----------------------------------------------------------------------------
(* extend_schedule on the stores of ScheduleSpec *)

\* C20: when schedule_extended_date is not already >= end (None included),
\* extend_schedule(end) on a membership with a template materializes it up
\* to end and leaves schedule_extended_date = end.
C20_ExtendSetsWatermark ==
    \A m \in DOMAIN memberships, end \in Ticks(MaxScheduleTick) :
        (/\ BagSize(MembershipSchedule(schedule_intervals, m)) > 0
         /\ ~(\E w \in memberships[m] : w >= end))
            => \A o \in extend_schedule(m, end, intervals, memberships, schedule_intervals) :
                   o.mems[m] = {end}

----------------------------------------------------------------------------
(* Interval.save on the stores of Spec: rejected saves *)

\* what save() may be handed: an interval of any kind, with or without
\* organization and manager, over any two instants (start >= end included)
SaveInputs(instants) ==
    {Interval(r, x[1], x[2], x[3], p[1], p[2]) :
        r \in Resources,
        x \in ({Kind_Unavailable} \X {None} \X {None})
               \cup ({Kind_OrganizationReserved} \X (Organizations \cup {None}) \X {None})
               \cup ({Kind_ManagerReserved} \X (Organizations \cup {None})
                         \X (Managers \cup {None})),
        p \in instants \X instants}

----------------------------------------------------------------------------
(* Properties of the concurrent saves (ConcurrentSpec) *)

\* C22: two requests concurrently save intervals of one identity that
\* overlap or lie within JOIN_GAP of each other; under every interleaving,
\* once both have completed, the stored intervals of that identity are
\* canonical: no two of them overlap or lie less than JOIN_GAP apart.
C22_ConcurrentSavesCanonical ==
    (/\ \A p \in Requests : pc[p] = "done"
     /\ Near(arg_range[1], arg_range[2], JOIN_GAP))
        => CanonicalRows(StoredRows, JOIN_GAP)

----------------------------------------------------------------------------
(* apply_schedule on the stores of ScheduleSpec: failure part-way *)

\* C23: the interval mutations of one request are all-or-nothing: when
\* apply_schedule ends with a FormError raised part-way, the stored
\* intervals and schedule fragments are the same as before the call.
C23_ApplyScheduleAllOrNothing ==
    \A m \in DOMAIN memberships, p \in Spans(Ticks(MaxScheduleTick)), x \in Templates :
        \A o \in apply_schedule(m, {p[1]}, {p[2]}, x[1], x[2],
                                 intervals, memberships, schedule_intervals) :
            o.error # "" => (o.table = intervals /\ o.scheds = schedule_intervals)

----------------------------------------------------------------------------
(* Properties of the event sink (EventSpec) *)

Over(r) == requests[r].pc = "done"

\* the response of r has an 'events' field
HasEvents(r) == requests[r].body.events # None

\* r was served while no other request was: every other request was over
\* when r entered, or entered when r was over
ServedAlone(r) ==
    \A q \in DOMAIN requests \ {r} : q \in requests[r].done \/ r \in requests[q].done

\* C24: when two requests are served concurrently, the events list attached
\* to each response holds exactly the events produced by that request: none
\* pushed by the other request, and none of its own lost.
C24_NoCrossRequestEvents ==
    \A r \in DOMAIN requests :
        (Over(r) /\ ~requests[r].body.raised /\ requests[r].endpoint \in Decorated) =>
            IF requests[r].pushed = <<>> THEN ~HasEvents(r)
            ELSE HasEvents(r) /\ SeqSet(requests[r].body.events) = SeqSet(requests[r].pushed)

\* C25: within one request, the events list returned in the response holds
\* the events in exactly the order in which push_event_to_response was
\* called, none reordered, dropped or duplicated.
C25_EventsInPushOrder ==
    \A r \in DOMAIN requests :
        (Over(r) /\ ServedAlone(r) /\ HasEvents(r)) =>
            requests[r].body.events = requests[r].pushed

\* a request served alone pushed two events and its response holds an events list
C25_Witness ==
    \E r \in DOMAIN requests :
        /\ Over(r)
        /\ ServedAlone(r)
        /\ HasEvents(r)
        /\ Len(requests[r].pushed) = 2
        /\ Len(requests) = 2

\* C26: for every endpoint, whenever the event sink is not empty when the
\* handler returns successfully, the response body has an 'events' field
\* with those events (the single-interval DELETE and the membership DELETE
\* included).
C26_EventsAttached ==
    \A r \in DOMAIN requests :
        (Over(r) /\ ~requests[r].body.raised /\ requests[r].sink # <<>>) =>
            /\ HasEvents(r)
            /\ SeqSet(requests[r].sink) \subseteq SeqSet(requests[r].body.events)

\* C27: when a request fails after it has pushed events, those events
\* appear neither in its own response nor in the response of any later
\* request.
C27_FailedEventsNotObserved ==
    \A r \in DOMAIN requests :
        (Over(r) /\ requests[r].body.raised) =>
            /\ ~HasEvents(r)
            /\ \A q \in DOMAIN requests :
                  (r \in requests[q].done /\ Over(q) /\ HasEvents(q)) =>
                      SeqSet(requests[r].pushed) \cap SeqSet(requests[q].body.events) = {}

\* a request failed after pushing an event, and a later request through a
\* decorated handler pushed an event and was answered with an events list
C27_Witness ==
    \E r, q \in DOMAIN requests :
        /\ Over(r)
        /\ requests[r].body.raised
        /\ requests[r].pushed # <<>>
        /\ r \in requests[q].done
        /\ Over(q)
        /\ HasEvents(q)

----------------------------------------------------------------------------
(* The events of clear_unvailable_interval on the stores of Spec *)

\* manager m holds a reservation (ManagerReserved or OrganizationReserved)
\* of the resource that overlaps the span from start to end
HoldsReservation(m, resource, start, end) ==
    \E i \in DOMAIN intervals :
        /\ i.resource = resource
        /\ i.manager = m
        /\ i.kind \in {Kind_ManagerReserved, Kind_OrganizationReserved}
        /\ Overlap(i, [start |-> start, end |-> end])

\* the events of bag ev that name manager m
EventsFor(ev, m) == BagSize(BagFilter(ev, {e \in DOMAIN ev : e.manager = m}))

\* C28: clear_unvailable_interval(start, end) pushes exactly one
\* 'clear-unavailable-interval' event per distinct manager holding a
\* reservation of the resource that overlaps (start, end) when it removed
\* some unavailable time, none when it removed nothing, and never an event
\* of another kind for the pieces it trims, splits or deletes.
C28_ClearUnavailableEvents ==
    \A r \in Resources, p \in Spans(Ticks(MaxTick)) :
        \A o \in clear_unvailable_interval_events(r, p[1], p[2], intervals, memberships,
                                                   schedule_intervals) :
            IF o.table # intervals
            THEN /\ \A m \in Managers :
                      EventsFor(o.events, m) =
                          IF HoldsReservation(m, r, p[1], p[2]) THEN 1 ELSE 0
                 /\ \A e \in DOMAIN o.events :
                      e.kind = "clear-unavailable-interval" /\ e.manager \in Managers
            ELSE o.events = EmptyBag

\* scenario S6: an interval of unavailability overlaps a ManagerReserved
\* interval of the same resource
C28_Witness ==
    \E u, g \in DOMAIN intervals :
        /\ u.kind = Kind_Unavailable
        /\ g.kind = Kind_ManagerReserved
        /\ u.resource = g.resource
        /\ Overlap(u, g)

----------------------------------------------------------------------------
(* Properties of the interval endpoints (ViewSpec) *)

\* the intervals a create with this body would store, before any join
Targets(request, data) ==
    {Interval(x[1], Kind_Unavailable, None, x[2], data["start"], data["end"]) :
        x \in validated_resource(data, request.app, ResourceTable)
              \X validated_manager(data, request.app, ManagerTable, None)}

\* a response that refuses the request and leaves the table as it was
Refused(o) == o.status = 403 /\ o.table = intervals

\* C29: create, update, delete and delete_many refuse a request whose
\* author_id is missing or names, within the caller's app, neither the
\* manager of the target interval nor (for an interval of unavailability)
\* its resource; such a request creates, changes and deletes no interval.
C29_UnauthorizedRefused ==
    \A request \in ViewRequests :
        /\ \A data \in ViewData : \A target \in Targets(request, data) :
              ~has_object_permission(request, target, ResourceTable, ManagerTable)
              => \A o \in create(request, data, intervals, memberships,
                                 schedule_intervals, ResourceTable, ManagerTable) :
                    Refused(o)
        /\ \A obj \in DOMAIN intervals :
              ~has_object_permission(request, obj, ResourceTable, ManagerTable)
              => /\ \A data \in ViewData :
                       \A o \in update(request, obj, data, intervals, memberships,
                                       schedule_intervals, ResourceTable, ManagerTable) :
                          Refused(o)
                 /\ Refused(destroy(request, obj, intervals, ResourceTable, ManagerTable))
                 /\ Refused(delete_many(request, <<obj>>, intervals, ResourceTable,
                                        ManagerTable))

\* the rows of a table of entities that belong to app
AppRows(rows, app) == {x \in rows : x.app = app}

\* the intervals of table that belong to app: those of its resources
AppIntervals(table, app) ==
    BagFilter(table, {i \in DOMAIN table :
                         \E r \in AppRows(ResourceTable, app) : r.name = i.resource})

\* response o, given on the whole database, is a response the same request
\* gets on the caller's own data alone (the set alone), and it leaves the
\* intervals of the other apps as they were
Isolated(o, alone, app) ==
    /\ o.table (-) AppIntervals(o.table, app) = intervals (-) AppIntervals(intervals, app)
    /\ \E q \in alone : q.status = o.status /\ q.table = AppIntervals(o.table, app)

\* C30: a request of app A neither reads nor changes data of another app,
\* on every interval endpoint, even when both apps use the same msa_id
\* values: it gets the response it gets without the other app's data, and
\* the other app's intervals stay as they were.
C30_AppIsolation ==
    \A request \in ViewRequests : request.app # None =>
        LET app == request.app
            own == AppIntervals(intervals, app)
            R == AppRows(ResourceTable, app)
            M == AppRows(ManagerTable, app)
        IN  /\ \A data \in ViewData :
                  /\ \A o \in create(request, data, intervals, memberships,
                                     schedule_intervals, ResourceTable, ManagerTable) :
                        Isolated(o, create(request, data, own, memberships,
                                           schedule_intervals, R, M), app)
                  /\ \A obj \in DOMAIN intervals :
                        \A o \in update(request, obj, data, intervals, memberships,
                                        schedule_intervals, ResourceTable, ManagerTable) :
                           Isolated(o, update(request, obj, data, own, memberships,
                                              schedule_intervals, R, M), app)
            /\ \A obj \in DOMAIN intervals :
                  /\ Isolated(destroy(request, obj, intervals, ResourceTable, ManagerTable),
                              {destroy(request, obj, own, R, M)}, app)
                  /\ Isolated(delete_many(request, <<obj>>, intervals, ResourceTable,
                                          ManagerTable),
                              {delete_many(request, <<obj>>, own, R, M)}, app)

----------------------------------------------------------------------------
(* dismiss_from_organization on the stores of Spec *)

\* C31: after dismiss_from_organization at time t the membership is gone and
\* every stored interval of the resource for the organization ends at t or
\* before, the intervals that start after t included.
C31_DismissLeavesNoFuture ==
    \A m \in DOMAIN memberships, t \in {x \in Ticks(MaxTick) : x >= now} :
        \A o \in strip_organization_time(m, t, intervals, memberships, schedule_intervals) :
            o.error = ""
            => \A i \in DOMAIN o.table :
                  i.resource = m[1] /\ i.organization = m[2] => i.end <= t

----------------------------------------------------------------------------
(* IntervalQuerySet.between on the stores of Spec *)

\* C32: between(qs, qe) with qs < qe returns exactly the stored intervals
\* with start < qe and end > qs: those that share a span of positive length
\* with the range, and none that only abuts it.
C32_BetweenIsOverlap ==
    \A p \in Spans(Ticks(MaxTick)) :
        between(intervals, p[1], p[2]) =
            BagFilter(intervals, {i \in DOMAIN intervals : i.start < p[2] /\ i.end > p[1]})

\* the table holds an interval that abuts a range and one that overlaps it
C32_Witness ==
    \E i, j \in DOMAIN intervals, p \in Spans(Ticks(MaxTick)) :
        /\ i.end = p[1]
        /\ j.start < p[2] /\ j.end > p[1]
        /\ between(intervals, p[1], p[2]) # EmptyBag

----------------------------------------------------------------------------
(* ScheduleInterval.has_intersection on the stored fragments of ScheduleSpec *)

\* C33: has_intersection(a, b) is true exactly when a and b have the same
\* day_of_week and their open time ranges overlap (a.start < b.end and
\* b.start < a.end), for every pair of fragments, those with equal starts
\* and identical ones included; and it is symmetric.
C33_HasIntersectionIsOverlap ==
    \A a \in DOMAIN schedule_intervals, b \in Fragments :
        /\ fragment_has_intersection(a, b)
              = (a.day_of_week = b.day_of_week /\ a.start < b.end /\ b.start < a.end)
        /\ fragment_has_intersection(a, b) = fragment_has_intersection(b, a)

----------------------------------------------------------------------------
(* is_continuous over the iteration orders (FuncSpec) *)

\* C34: the result of is_continuous(start, end) does not depend on the order
\* in which the intervals of the collection are iterated: every permutation
\* of arg_list gives the same boolean.
C34_ContinuousOrderIndependent ==
    \A rows \in BagOrders(SeqToBag(arg_list)) :
        is_continuous_seq(rows, arg_range[1], arg_range[2])
            = is_continuous_seq(arg_list, arg_range[1], arg_range[2])

----------------------------------------------------------------------------
(* The events of Interval.save on the stores of Spec *)

\* the events of the sequence ev with this kind
OfKind(ev, kind) == {k \in DOMAIN ev : ev[k].kind = kind}

\* the events of a successful save: one 'create-interval', pushed first, and
\* for an interval of unavailability one 'add-unavailable-interval' for each
\* manager that holds a reservation of the resource overlapping the span
\* from start to end, none for the other kinds; nothing with events=False
SaveEventsFor(self, with_events, o, start, end) ==
    IF ~with_events THEN o.events = <<>>
    ELSE /\ OfKind(o.events, "create-interval") = {1}
         /\ OfKind(o.events, "add-unavailable-interval") = DOMAIN o.events \ {1}
         /\ \A m \in Managers :
               Cardinality({k \in DOMAIN o.events \ {1} : o.events[k].manager = m})
                  = IF self.kind = Kind_Unavailable /\ HoldsReservation(m, self.resource, start, end)
                    THEN 1 ELSE 0

\* C35 (as stated): the managers are those whose reservation overlaps the
\* saved start and end, the span of the interval as it was written.
C35_SaveEvents ==
    \A self \in SaveInputs(Ticks(MaxTick)), with_events \in BOOLEAN :
        \A o \in save_events(self, EmptyBag, TRUE, with_events, intervals, memberships,
                             schedule_intervals) :
            o.error = "" => SaveEventsFor(self, with_events, o, o.self.start, o.self.end)

\* C35 (amended): a successful save with events=True pushes exactly one
\* 'create-interval' event and, for an interval of unavailability, after it
\* exactly one 'add-unavailable-interval' event for each distinct manager
\* holding a reservation of the resource that overlaps the start and end the
\* interval had when save was called; for the other kinds it pushes no
\* 'add-unavailable-interval' event, and with events=False none at all.
C35_SaveEvents_Amended ==
    \A self \in SaveInputs(Ticks(MaxTick)), with_events \in BOOLEAN :
        \A o \in save_events(self, EmptyBag, TRUE, with_events, intervals, memberships,
                             schedule_intervals) :
            o.error = "" => SaveEventsFor(self, with_events, o, self.start, self.end)

\* an interval of unavailability can be saved over a manager's reservation,
\* and a reservation can be saved
C35_Witness ==
    /\ \E self \in UnavailableIntervals(Ticks(MaxTick)), m \in Managers :
          /\ HoldsReservation(m, self.resource, self.start, self.end)
          /\ \E o \in save_events(self, EmptyBag, TRUE, TRUE, intervals, memberships,
                                  schedule_intervals) :
                o.error = "" /\ Len(o.events) = 2
    /\ \E self \in ManagerIntervals(Ticks(MaxTick)) :
          \E o \in save_events(self, EmptyBag, TRUE, TRUE, intervals, memberships,
                               schedule_intervals) : o.error = ""

----------------------------------------------------------------------------
(* The split of substract_from_existing on the stores of ScheduleSpec *)

\* the copies of row in table
CopiesOf(table, row) == IF row \in DOMAIN table THEN table[row] ELSE 0

\* C36: when substract_from_existing splits a stored interval O that
\* strictly contains self, O becomes [O.start, self.start] and a new piece
\* [self.end, O.end] with the resource, kind, organization and manager of O
\* is stored: after the call both pieces are in the table.  self and the
\* QuerySet are those apply_schedule hands to it.
C36_SplitKeepsBothPieces ==
    \A m \in DOMAIN memberships, p \in Spans(Ticks(MaxScheduleTick)) :
        LET self == [start |-> p[1], end |-> p[2]]
            qs == FilterKind(FilterOrganization(FilterResource(
                      between(intervals, p[1], p[2]), m[1]), m[2]),
                      Kind_OrganizationReserved)
        IN  \A o \in substract_from_existing_db(self, qs, intervals, memberships,
                                                schedule_intervals) :
                \A O \in DOMAIN qs :
                    /\ O.start < self.start
                    /\ O.end > self.end
                    /\ CopiesOf(o.table, O) < CopiesOf(intervals, O)
                    => /\ BagIn([O EXCEPT !.end = self.start], o.table)
                       /\ BagIn([O EXCEPT !.start = self.end], o.table)

----------------------------------------------------------------------------
(* The frame of save, join_with_existing and substract_from_existing on     *)
(* the stores of Spec                                                       *)

\* between table before and table after, nothing happened to the rows that
\* do not share the identity of self, and no row that shares it and lies
\* outside the span of self widened by gap was changed or deleted
Untouched(self, gap, before, after) ==
    \A row \in DOMAIN before \cup DOMAIN after :
        IF ~SameIdentity(row, self)
        THEN CopiesOf(after, row) = CopiesOf(before, row)
        ELSE (row.end < self.start - gap \/ row.start > self.end + gap)
             => CopiesOf(after, row) >= CopiesOf(before, row)

----------------------------------------------------------------------------
(* The short candidates of apply_schedule (ApplySpec) *)

\* C38: no interval inserted by apply_schedule is shorter than JOIN_GAP:
\* after the first call on the empty table, through apply_schedule or
\* extend_schedule, every stored interval lasts JOIN_GAP or longer.
C38_NoShortInserted ==
    pc \in {"applied", "extended"}
    => \A i \in DOMAIN intervals : i.end - i.start >= JOIN_GAP

----------------------------------------------------------------------------
(* Reservations of different organizations on the stores of ScheduleSpec *)

\* C39: after any sequence of Interval.save and apply_schedule calls, no two
\* stored OrganizationReserved intervals of one resource that belong to
\* different organizations overlap in time.
C39_OrganizationsDisjoint ==
    \A i, j \in DOMAIN intervals :
        (/\ i.kind = Kind_OrganizationReserved
         /\ j.kind = Kind_OrganizationReserved
         /\ i.resource = j.resource
         /\ i.organization # j.organization) => ~Overlap(i, j)

----------------------------------------------------------------------------
(* C40: the watermark of a membership never moves backwards *)

====
